---------------------------- MODULE Spec2Model ----------------------------
(***************************************************************************)
(* State-machine model of the CHIP-8 recompiler runtime: the batch         *)
(* launcher (rom_selector.cpp), the main loop (runtime.c), the pause menu  *)
(* (menu.c), the context (context.c), the instruction helpers              *)
(* (instructions.c / instructions.h) and the SDL platform's input polling. *)
(*                                                                         *)
(* Arrays that the C code allocates zero-filled are kept sparse: memory is *)
(* a function from the addresses holding a non-zero byte to that byte, and *)
(* the display is the set of lit pixel indices.  Reading an address that   *)
(* is not in the domain gives 0, exactly as the calloc'ed array does.      *)
(***************************************************************************)
EXTENDS Integers, Sequences, FiniteSets, TLC

(***************************************************************************)
(* Bounds of the model                                                     *)
(***************************************************************************)
\* game frames (menu closed) run per chip8_run call
MaxFrames == 2
\* changes of the CPU speed made in the pause menu per chip8_run call
MaxAdjust == 1

(***************************************************************************)
(* Program constants                                                       *)
(***************************************************************************)
CHIP8_MEMORY_SIZE == 4096
CHIP8_PROGRAM_START == 512
CHIP8_FONT_START == 80
CHIP8_TIMER_FREQ_HZ == 60
FUNC_TABLE_SIZE == 4096
PAUSE_MENU_COUNT == 8
PAUSE_MENU_COUNT_MULTI == 9
GRAPHICS_MENU_COUNT == 7
AUDIO_MENU_COUNT == 5
GAMEPLAY_MENU_COUNT == 4
QUIRKS_MENU_COUNT == 7
CONFIRM_COUNT == 2
\* the launcher's fallback CPU frequency when a ROM recommends none
LauncherDefaultHz == 300
\* CHIP8_RUN_CONFIG_DEFAULT.cpu_freq_hz, also chip8_settings_default()
DefaultCpuHz == 700

NULL == [rom |-> 0, addr |-> 0]

Regs == 0..15

\* menu navigation commands (Chip8MenuNav)
NavSet == {"NONE", "UP", "DOWN", "LEFT", "RIGHT", "SELECT", "BACK"}

(***************************************************************************)
(* Byte helpers                                                            *)
(***************************************************************************)
RECURSIVE BitAnd(_, _)
BitAnd(a, b) ==
    IF a = 0 \/ b = 0 THEN 0
    ELSE (IF a % 2 = 1 /\ b % 2 = 1 THEN 1 ELSE 0) + 2 * BitAnd(a \div 2, b \div 2)

\* the zero-default read of a sparse byte array
MemRead(m, a) == IF a \in DOMAIN m THEN m[a] ELSE 0

\* the sparse array after  m[a] = v
MemWrite(m, a, v) ==
    IF v = 0
    THEN [b \in (DOMAIN m) \ {a} |-> m[b]]
    ELSE [b \in (DOMAIN m) \cup {a} |-> IF b = a THEN v ELSE m[b]]

(***************************************************************************)
(* context.c                                                               *)
(***************************************************************************)
CHIP8_FONT ==
    << 240, 144, 144, 144, 240,   32,  96,  32,  32, 112,
       240,  16, 240, 128, 240,  240,  16, 240,  16, 240,
       144, 144, 240,  16,  16,  240, 128, 240,  16, 240,
       240, 128, 240, 144, 240,  240,  16,  32,  64,  64,
       240, 144, 240, 144, 240,  240, 144, 240,  16, 240,
       240, 144, 240, 144, 144,  224, 144, 224, 144, 224,
       240, 128, 128, 128, 240,  224, 144, 144, 144, 224,
       240, 128, 240, 128, 240,  240, 128, 240, 128, 128 >>

chip8_context_create ==
    [ V |-> [r \in Regs |-> 0],
      I |-> 0,
      PC |-> CHIP8_PROGRAM_START,
      SP |-> 0,
      delay_timer |-> 0,
      sound_timer |-> 0,
      memory |-> [a \in CHIP8_FONT_START..(CHIP8_FONT_START + Len(CHIP8_FONT) - 1)
                    |-> CHIP8_FONT[a - CHIP8_FONT_START + 1]],
      stack |-> [s \in 0..15 |-> 0],
      display |-> {},
      display_dirty |-> FALSE,
      keys |-> [k \in 0..15 |-> FALSE],
      keys_prev |-> [k \in 0..15 |-> FALSE],
      last_key_released |-> -1,
      running |-> TRUE,
      waiting_for_key |-> FALSE,
      key_wait_register |-> 0,
      cycles_remaining |-> 0,
      resume_pc |-> 0,
      should_yield |-> FALSE,
      instruction_count |-> 0,
      frame_count |-> 0 ]

chip8_context_reset(c) ==
    [c EXCEPT !.V = [r \in Regs |-> 0],
              !.I = 0,
              !.PC = CHIP8_PROGRAM_START,
              !.SP = 0,
              !.delay_timer = 0,
              !.sound_timer = 0,
              !.stack = [s \in 0..15 |-> 0],
              !.display = {},
              !.display_dirty = TRUE,
              !.keys = [k \in 0..15 |-> FALSE],
              !.last_key_released = -1,
              !.running = TRUE,
              !.waiting_for_key = FALSE,
              !.key_wait_register = 0,
              !.instruction_count = 0,
              !.frame_count = 0]

\* data maps the offsets of the non-zero bytes of the ROM image to their
\* values.  The result is [ok, ctx].
chip8_context_load_program(c, data, size) ==
    IF data = NULL \/ size > CHIP8_MEMORY_SIZE - CHIP8_PROGRAM_START
    THEN [ok |-> FALSE, ctx |-> c]
    ELSE LET lo == CHIP8_PROGRAM_START
             hi == CHIP8_PROGRAM_START + size - 1
             kept == {a \in DOMAIN c.memory : a < lo \/ a > hi}
             written == {lo + o : o \in {p \in DOMAIN data : p < size}}
         IN [ok |-> TRUE,
             ctx |-> [c EXCEPT !.memory =
                        [a \in kept \cup written |->
                            IF a \in written THEN data[a - lo] ELSE c.memory[a]]]]

(***************************************************************************)
(* runtime.c: the function lookup table.  The table is kept as the set of  *)
(* its non-NULL slots, [addr, fn]; a function pointer is identified by the *)
(* ROM whose code it is and the CHIP-8 address it was emitted for.         *)
(***************************************************************************)
chip8_register_function(table, address, func) ==
    IF address < FUNC_TABLE_SIZE
    THEN {e \in table : e.addr # address} \cup
         (IF func = NULL THEN {} ELSE {[addr |-> address, fn |-> func]})
    ELSE table

\* a lookup without the bounds check: past the end of the table it reads
\* whatever lies there
chip8_lookup_function_Mut(table, address) ==
    IF \E e \in table : e.addr = address
    THEN (CHOOSE e \in table : e.addr = address).fn
    ELSE IF address < FUNC_TABLE_SIZE THEN NULL
    ELSE [rom |-> 0, addr |-> address]

chip8_lookup_function(table, address) ==
    IF address < FUNC_TABLE_SIZE
    THEN IF \E e \in table : e.addr = address
         THEN (CHOOSE e \in table : e.addr = address).fn
         ELSE NULL
    ELSE NULL

\* a clear that leaves the table as it is
chip8_clear_function_table_Mut(table) == table

chip8_clear_function_table(table) == {}


(***************************************************************************)
(* instructions.c / instructions.h                                         *)
(***************************************************************************)
chip8_wait_key(c, reg) ==
    [c EXCEPT !.waiting_for_key = TRUE, !.key_wait_register = reg]

chip8_tick_timers(c) ==
    [c EXCEPT !.delay_timer = IF c.delay_timer > 0 THEN c.delay_timer - 1 ELSE 0,
              !.sound_timer = IF c.sound_timer > 0 THEN c.sound_timer - 1 ELSE 0]

chip8_sound_active(c) == c.sound_timer > 0

\* if (--cycles_remaining <= 0) { resume_pc = resume_addr; should_yield = true; return; }
\* a yield check that lets the budget reach zero without yielding
CHIP8_YIELD_Mut(c, resume_addr) ==
    LET d == c.cycles_remaining - 1
    IN IF d < 0
       THEN [ctx |-> [c EXCEPT !.cycles_remaining = d, !.resume_pc = resume_addr,
                               !.should_yield = TRUE],
             returned |-> TRUE]
       ELSE [ctx |-> [c EXCEPT !.cycles_remaining = d], returned |-> FALSE]

CHIP8_YIELD(c, resume_addr) ==
    LET d == c.cycles_remaining - 1
    IN IF d <= 0
       THEN [ctx |-> [c EXCEPT !.cycles_remaining = d,
                               !.resume_pc = resume_addr,
                               !.should_yield = TRUE],
             returned |-> TRUE]
       ELSE [ctx |-> [c EXCEPT !.cycles_remaining = d], returned |-> FALSE]

\* if (should_yield && resume_pc == addr) { should_yield = false; goto label; }
\* a resume check that compares against the wrong label
CHIP8_RESUME_CHECK_Mut(c, addr) ==
    IF c.should_yield /\ c.resume_pc = addr + 2
    THEN [ctx |-> [c EXCEPT !.should_yield = FALSE], jump |-> TRUE]
    ELSE [ctx |-> c, jump |-> FALSE]

CHIP8_RESUME_CHECK(c, addr) ==
    IF c.should_yield /\ c.resume_pc = addr
    THEN [ctx |-> [c EXCEPT !.should_yield = FALSE], jump |-> TRUE]
    ELSE [ctx |-> c, jump |-> FALSE]

(***************************************************************************)
(* runtime.h: computed jump.  _target is a uint16_t.                       *)
(***************************************************************************)
CHIP8_COMPUTED_JUMP(c, base_addr, table) ==
    LET target == (base_addr + c.V[0]) % 65536
        func == chip8_lookup_function(table, target)
    IN IF func # NULL
       THEN [called |-> func, panic |-> FALSE, target |-> target]
       ELSE [called |-> NULL, panic |-> TRUE, target |-> target]

(***************************************************************************)
(* The catalog of a batch build: three ROMs.  Each emitted routine is      *)
(* given as the table of its instructions; yield is TRUE for the           *)
(* instructions inside a loop, after which the emitter places a yield      *)
(* check whose resume address is the address executed next.                *)
(*                                                                         *)
(*   ROM 1 (no recommended frequency)     ROM 2 (130 Hz)                   *)
(*     200: 6102  LD  V1, 2                 200: C0FF  RND V0, FF          *)
(*     202: F115  LD  DT, V1                202: BF02  JP  V0, F02         *)
(*     204: F30A  LD  V3, K   <-+           F02: 6401  LD  V4, 1           *)
(*     206: 7080  ADD V0, 80    |           F04: 00EE  RET                 *)
(*     208: F207  LD  V2, DT    |         ROM 3 (30 Hz)                    *)
(*     20A: 1204  JP  204     --+           200: 7580  ADD V5, 80  <-+     *)
(*                                          202: 1200  JP  200     --+     *)
(***************************************************************************)
RomIds == {1, 2, 3}

Ins(op, x, nn, yield) == [op |-> op, x |-> x, nn |-> nn, yield |-> yield]

Program(rom) ==
    CASE rom = 1 ->
           (512 :> Ins("LDI", 1, 2, FALSE)) @@ (514 :> Ins("LD_DT_VX", 1, 0, FALSE)) @@
           (516 :> Ins("LDK", 3, 0, TRUE))  @@ (518 :> Ins("ADDI", 0, 128, TRUE)) @@
           (520 :> Ins("LD_VX_DT", 2, 0, TRUE)) @@ (522 :> Ins("JP", 0, 516, TRUE))
      [] rom = 2 ->
           (512 :> Ins("RND", 0, 255, FALSE)) @@ (514 :> Ins("JPV0", 0, 3842, FALSE)) @@
           (3842 :> Ins("LDI", 4, 1, FALSE)) @@ (3844 :> Ins("RET", 0, 0, FALSE))
      [] rom = 3 ->
           (512 :> Ins("ADDI", 5, 128, TRUE)) @@ (514 :> Ins("JP", 0, 512, TRUE))

\* the addresses a yield check of the routine can record: the prologue has a
\* resume check for each of them
ResumeLabels(rom) == {a \in DOMAIN Program(rom) : Program(rom)[a].yield}

\* the ROM image: size and the non-zero bytes by offset
RomData(rom) ==
    CASE rom = 1 -> (0 :> 97) @@ (1 :> 2) @@ (2 :> 241) @@ (3 :> 21) @@ (4 :> 243) @@
                    (5 :> 10) @@ (6 :> 112) @@ (7 :> 128) @@ (8 :> 242) @@ (9 :> 7) @@
                    (10 :> 18) @@ (11 :> 4)
      [] rom = 2 -> (0 :> 192) @@ (1 :> 255) @@ (2 :> 191) @@ (3 :> 2) @@
                    (3330 :> 100) @@ (3331 :> 1) @@ (3333 :> 238)
      [] rom = 3 -> (0 :> 117) @@ (1 :> 128) @@ (2 :> 18)

RomSize(rom) == CASE rom = 1 -> 12 [] rom = 2 -> 3334 [] rom = 3 -> 4

\* RomEntry.recommended_cpu_freq (0 = none)
RecommendedCpuFreq(rom) == CASE rom = 1 -> 0 [] rom = 2 -> 130 [] rom = 3 -> 30

\* the call targets of the ROM, which its register hook enters in the table
CallTargets(rom) == CASE rom = 1 -> {512} [] rom = 2 -> {512, 3842} [] rom = 3 -> {512}

Fn(rom, addr) == [rom |-> rom, addr |-> addr]

RECURSIVE RegisterAll(_, _, _)
RegisterAll(table, rom, addrs) ==
    IF addrs = {} THEN table
    ELSE LET a == CHOOSE x \in addrs : TRUE
         IN RegisterAll(chip8_register_function(table, a, Fn(rom, a)), rom, addrs \ {a})

\* <prefix>_register_functions()
register_functions(table, rom) == RegisterAll(table, rom, CallTargets(rom))

\* the values chip8_random_byte() is taken to return (the generator is seeded
\* from the wall clock)
RandBytes == {0, 4, 254}

(***************************************************************************)
(* One emitted instruction (without its yield check).  The result gives    *)
(* the context, what happens next ("next", "return", "panic"), the address *)
(* executed next and, for a computed jump, the dispatch that was made.     *)
(***************************************************************************)
NoJump == [called |-> NULL, panic |-> FALSE, target |-> 0]

\* a computed jump as the history keeps it
JumpLog(made, j, base_addr, v0) ==
    [ made |-> made, called |-> j.called, panic |-> j.panic, target |-> j.target,
      base |-> base_addr, v0 |-> v0 ]

Step(c, kind, next, jump) == [ctx |-> c, kind |-> kind, next |-> next, jump |-> jump]

ExecOp(c, addr, ins, rnd, table) ==
    CASE ins.op = "LDI" ->
           Step([c EXCEPT !.V[ins.x] = ins.nn], "next", addr + 2, NoJump)
      [] ins.op = "ADDI" ->
           Step([c EXCEPT !.V[ins.x] = (c.V[ins.x] + ins.nn) % 256], "next", addr + 2, NoJump)
      [] ins.op = "LD_DT_VX" ->
           Step([c EXCEPT !.delay_timer = c.V[ins.x]], "next", addr + 2, NoJump)
      [] ins.op = "LD_VX_DT" ->
           Step([c EXCEPT !.V[ins.x] = c.delay_timer], "next", addr + 2, NoJump)
      [] ins.op = "RND" ->
           Step([c EXCEPT !.V[ins.x] = BitAnd(rnd, ins.nn)], "next", addr + 2, NoJump)
      [] ins.op = "LDK" ->
           Step(chip8_wait_key(c, ins.x), "next", addr + 2, NoJump)
      [] ins.op = "JP" ->
           Step(c, "next", ins.nn, NoJump)
      [] ins.op = "JPV0" ->
           LET j == CHIP8_COMPUTED_JUMP(c, ins.nn, table)
           IN IF j.panic THEN Step(c, "panic", j.target, j)
              ELSE Step(c, "next", j.called.addr, j)
      [] ins.op = "RET" ->
           Step(c, "return", 0, NoJump)

\* the prologue of the entry routine: one resume check per label
EntryPrologue(c, rom) ==
    IF \E a \in ResumeLabels(rom) : CHIP8_RESUME_CHECK(c, a).jump
    THEN LET a == CHOOSE x \in ResumeLabels(rom) : CHIP8_RESUME_CHECK(c, x).jump
         IN [ctx |-> CHIP8_RESUME_CHECK(c, a).ctx, pc |-> a, resumed |-> TRUE]
    ELSE [ctx |-> c, pc |-> CHIP8_PROGRAM_START, resumed |-> FALSE]


(***************************************************************************)
(* menu.c.  Of the settings copy held by the menu only the CPU frequency   *)
(* is kept; a change of any other setting shows as settings_dirty.         *)
(***************************************************************************)
chip8_menu_init(cpu_freq_hz) ==
    [ screen |-> "NONE", selected |-> 0, item_count |-> 0, paused |-> FALSE,
      reset_requested |-> FALSE, quit_requested |-> FALSE, menu_requested |-> FALSE,
      settings_dirty |-> FALSE, cpu_freq_hz |-> cpu_freq_hz ]

chip8_menu_open(m, multi) ==
    [m EXCEPT !.screen = "PAUSE", !.selected = 0,
              !.item_count = IF multi THEN PAUSE_MENU_COUNT_MULTI ELSE PAUSE_MENU_COUNT,
              !.paused = TRUE]

chip8_menu_close(m) ==
    [m EXCEPT !.screen = "NONE", !.selected = 0, !.item_count = 0, !.paused = FALSE]

chip8_menu_is_open(m) == m.screen # "NONE"

enter_submenu(m, screen, item_count) ==
    [m EXCEPT !.screen = screen, !.selected = 0, !.item_count = item_count]

go_back(m) ==
    CASE m.screen \in {"GRAPHICS", "AUDIO", "GAMEPLAY", "QUIRKS", "CONTROLS"} ->
           [m EXCEPT !.screen = "PAUSE", !.selected = 0, !.item_count = PAUSE_MENU_COUNT]
      [] m.screen \in {"CONFIRM_QUIT", "CONFIRM_RESET"} ->
           [m EXCEPT !.screen = "PAUSE", !.selected = 0, !.item_count = PAUSE_MENU_COUNT]
      [] m.screen = "PAUSE" -> chip8_menu_close(m)
      [] OTHER -> m

Clamp(v, lo, hi) == IF v < lo THEN lo ELSE IF v > hi THEN hi ELSE v

adjust_value(m, delta) ==
    CASE m.screen = "GRAPHICS" /\ m.selected \in 0..5 -> [m EXCEPT !.settings_dirty = TRUE]
      [] m.screen = "AUDIO" /\ m.selected \in 0..3 -> [m EXCEPT !.settings_dirty = TRUE]
      [] m.screen = "GAMEPLAY" /\ m.selected = 0 ->
           [m EXCEPT !.cpu_freq_hz = Clamp(m.cpu_freq_hz + delta * 50, 100, 2000),
                     !.settings_dirty = TRUE]
      [] m.screen = "GAMEPLAY" /\ m.selected \in 1..2 -> [m EXCEPT !.settings_dirty = TRUE]
      [] m.screen = "QUIRKS" /\ m.selected < 6 -> [m EXCEPT !.settings_dirty = TRUE]
      [] OTHER -> m

select_item(m, multi) ==
    CASE m.screen = "PAUSE" ->
           (CASE m.selected = 0 -> chip8_menu_close(m)
              [] m.selected = 1 -> enter_submenu(m, "GRAPHICS", GRAPHICS_MENU_COUNT)
              [] m.selected = 2 -> enter_submenu(m, "AUDIO", AUDIO_MENU_COUNT)
              [] m.selected = 3 -> enter_submenu(m, "GAMEPLAY", GAMEPLAY_MENU_COUNT)
              [] m.selected = 4 -> enter_submenu(m, "QUIRKS", QUIRKS_MENU_COUNT)
              [] m.selected = 5 -> enter_submenu(m, "CONTROLS", 1)
              [] m.selected = 6 -> enter_submenu(m, "CONFIRM_RESET", CONFIRM_COUNT)
              [] m.selected = 7 ->
                   IF multi THEN enter_submenu(m, "CONFIRM_MENU", CONFIRM_COUNT)
                   ELSE enter_submenu(m, "CONFIRM_QUIT", CONFIRM_COUNT)
              [] m.selected = 8 ->
                   IF multi THEN enter_submenu(m, "CONFIRM_QUIT", CONFIRM_COUNT) ELSE m
              [] OTHER -> m)
      [] m.screen = "GRAPHICS" ->
           IF m.selected = GRAPHICS_MENU_COUNT - 1 THEN go_back(m) ELSE adjust_value(m, 1)
      [] m.screen = "AUDIO" ->
           IF m.selected = AUDIO_MENU_COUNT - 1 THEN go_back(m) ELSE adjust_value(m, 1)
      [] m.screen = "GAMEPLAY" ->
           IF m.selected = GAMEPLAY_MENU_COUNT - 1 THEN go_back(m) ELSE adjust_value(m, 1)
      [] m.screen = "QUIRKS" ->
           IF m.selected = QUIRKS_MENU_COUNT - 1 THEN go_back(m) ELSE adjust_value(m, 1)
      [] m.screen = "CONTROLS" -> go_back(m)
      [] m.screen = "CONFIRM_QUIT" ->
           go_back(IF m.selected = 0 THEN [m EXCEPT !.quit_requested = TRUE] ELSE m)
      [] m.screen = "CONFIRM_RESET" ->
           IF m.selected = 0
           THEN chip8_menu_close([m EXCEPT !.reset_requested = TRUE])
           ELSE go_back(m)
      [] m.screen = "CONFIRM_MENU" ->
           IF m.selected = 0
           THEN chip8_menu_close([m EXCEPT !.menu_requested = TRUE])
           ELSE go_back(m)
      [] OTHER -> m

chip8_menu_navigate(m, nav, multi) ==
    CASE nav = "UP" -> IF m.selected > 0 THEN [m EXCEPT !.selected = m.selected - 1] ELSE m
      [] nav = "DOWN" ->
           IF m.selected < m.item_count - 1 THEN [m EXCEPT !.selected = m.selected + 1] ELSE m
      [] nav = "LEFT" -> adjust_value(m, -1)
      [] nav = "RIGHT" -> adjust_value(m, 1)
      [] nav = "SELECT" -> select_item(m, multi)
      [] nav = "BACK" -> go_back(m)
      [] OTHER -> m

\* the result is [menu, cpu]: the menu and the main loop's settings.cpu_freq_hz
chip8_menu_apply_settings(m, cpu) ==
    IF m.settings_dirty
    THEN [menu |-> [m EXCEPT !.settings_dirty = FALSE], cpu |-> m.cpu_freq_hz]
    ELSE [menu |-> m, cpu |-> cpu]

(***************************************************************************)
(* platform_sdl.c.  The SDL event queue and keyboard are the environment:  *)
(* one poll sees the events queued since the previous poll, given as       *)
(* [quit, up, held, rep, esc]: a window-close event, the CHIP-8 key of a   *)
(* key-up event (-1: none), the keys physically held, whether the repeat   *)
(* interval of a held key has elapsed, and an ESC key-down event.  Of the  *)
(* ImGui settings overlay only the show_settings flag is part of the       *)
(* model.                                                                  *)
(***************************************************************************)
Inp(quit, up, held, rep, esc) ==
    [quit |-> quit, up |-> up, held |-> held, rep |-> rep, esc |-> esc]

\* the polls of a session in which ESC is not pressed
PollInputs ==
    { Inp(FALSE, -1, {}, FALSE, FALSE),
      Inp(FALSE, 10, {}, FALSE, FALSE),
      Inp(FALSE, -1, {7}, FALSE, FALSE),
      Inp(TRUE, -1, {}, FALSE, FALSE) }

\* a poll that finds an ESC key-down event in the queue
EscInput == Inp(FALSE, -1, {}, FALSE, TRUE)

\* SDLPlatformData after sdl_init
sdl_init ==
    [ name |-> "sdl", quit_requested |-> FALSE, escape_pressed |-> FALSE,
      show_settings |-> FALSE,
      key_first_press |-> [k \in 0..15 |-> TRUE] ]

\* a poll that takes a held key for a released one
sdl_poll_events_Mut(c, p, inp) ==
    LET c1 == IF inp.quit THEN [c EXCEPT !.running = FALSE] ELSE c
        p1 == [p EXCEPT !.quit_requested = p.quit_requested \/ inp.quit,
                        !.show_settings = IF inp.esc THEN ~@ ELSE @]
        c2 == IF inp.held # {} /\ c1.waiting_for_key
              THEN [c1 EXCEPT !.last_key_released = CHOOSE k \in inp.held : TRUE]
              ELSE IF inp.up >= 0 /\ c1.waiting_for_key
              THEN [c1 EXCEPT !.last_key_released = inp.up] ELSE c1
        fp == [k \in 0..15 |-> p1.key_first_press[k] \/ k = inp.up]
    IN [ ctx |-> [c2 EXCEPT !.keys_prev = c2.keys,
                            !.keys = [k \in 0..15 |->
                                        k \in inp.held /\ (fp[k] \/ inp.rep)]],
         plat |-> [p1 EXCEPT !.key_first_press = [k \in 0..15 |-> k \notin inp.held]] ]

\* the result is [ctx, plat]
sdl_poll_events(c, p, inp) ==
    LET c1 == IF inp.quit THEN [c EXCEPT !.running = FALSE] ELSE c
        p1 == [p EXCEPT !.quit_requested = p.quit_requested \/ inp.quit,
                        !.show_settings = IF inp.esc THEN ~@ ELSE @]
        c2 == IF inp.up >= 0 /\ c1.waiting_for_key
              THEN [c1 EXCEPT !.last_key_released = inp.up] ELSE c1
        fp == [k \in 0..15 |-> p1.key_first_press[k] \/ k = inp.up]
    IN [ ctx |-> [c2 EXCEPT !.keys_prev = c2.keys,
                            !.keys = [k \in 0..15 |->
                                        k \in inp.held /\ (fp[k] \/ inp.rep)]],
         plat |-> [p1 EXCEPT !.key_first_press = [k \in 0..15 |-> k \notin inp.held]] ]

sdl_should_quit(p) == p.quit_requested

\* What sdl_poll_menu_events finds in the queue with the menu open: a
\* navigation key-down (or the repeat of a held one) or a window-close event.
\* A poll that finds nothing leaves every variable as it is.
MenuEvents == (NavSet \ {"NONE"}) \cup {"QUIT"}

\* With the menu closed every navigation but BACK has the effect of NONE, and
\* a window-close event has the effect it has in sdl_poll_events just before.
GameEvents == {"NONE", "BACK"}

\* a menu poll that also runs the 60 Hz tick of the machine
sdl_poll_menu_events_Mut(c, p, ev) ==
    LET t == [chip8_tick_timers(c) EXCEPT !.frame_count = @ + 1]
    IN IF p.escape_pressed
       THEN [nav |-> "BACK", ctx |-> t, plat |-> [p EXCEPT !.escape_pressed = FALSE]]
       ELSE IF ev = "QUIT"
       THEN [nav |-> "NONE", ctx |-> [t EXCEPT !.running = FALSE],
             plat |-> [p EXCEPT !.quit_requested = TRUE]]
       ELSE [nav |-> ev, ctx |-> t, plat |-> p]

\* the result is [nav, ctx, plat]
sdl_poll_menu_events(c, p, ev) ==
    IF p.escape_pressed
    THEN [nav |-> "BACK", ctx |-> c, plat |-> [p EXCEPT !.escape_pressed = FALSE]]
    ELSE IF ev = "QUIT"
    THEN [nav |-> "NONE", ctx |-> [c EXCEPT !.running = FALSE],
          plat |-> [p EXCEPT !.quit_requested = TRUE]]
    ELSE [nav |-> ev, ctx |-> c, plat |-> p]

\* sdl_apply_settings as far as the machine sees it
sdl_apply_settings(c) == [c EXCEPT !.display_dirty = TRUE]

(***************************************************************************)
(* platform_headless.c: no display, no input; the run ends after           *)
(* max_frames polls.                                                       *)
(***************************************************************************)
\* HeadlessPlatformData after headless_init
headless_init == [ name |-> "headless", frames_run |-> 0, max_frames |-> 60 ]

chip8_headless_set_max_frames(p, max_frames) == [p EXCEPT !.max_frames = max_frames]

\* the result is [ctx, plat]
headless_poll_events(c, p) ==
    LET p1 == [p EXCEPT !.frames_run = @ + 1]
    IN [ ctx |-> IF p1.max_frames > 0 /\ p1.frames_run >= p1.max_frames
                 THEN [c EXCEPT !.running = FALSE] ELSE c,
         plat |-> p1 ]

\* the result is [nav, ctx, plat]
headless_poll_menu_events(c, p) == [nav |-> "NONE", ctx |-> c, plat |-> p]

\* a should_quit that answers one frame late
headless_should_quit_Mut(p) == p.max_frames > 0 /\ p.frames_run > p.max_frames

headless_should_quit(p) == p.max_frames > 0 /\ p.frames_run >= p.max_frames

headless_apply_settings(c) == c

\* headless_get_time_us: the clock advances by this much at every call
HeadlessClockStepUs == 16667

\* chip8_run reads the clock after every timer tick, so under the headless
\* platform a timer period has always passed at the next tick test
HeadlessTimerDue == HeadlessClockStepUs >= 1000000 \div CHIP8_TIMER_FREQ_HZ

(***************************************************************************)
(* The calls chip8_run makes through g_platform                            *)
(***************************************************************************)
platform_poll_events(c, p, inp) ==
    IF p.name = "headless" THEN headless_poll_events(c, p) ELSE sdl_poll_events(c, p, inp)

platform_poll_menu_events(c, p, ev) ==
    IF p.name = "headless" THEN headless_poll_menu_events(c, p)
    ELSE sdl_poll_menu_events(c, p, ev)

platform_should_quit(p) ==
    IF p.name = "headless" THEN headless_should_quit(p) ELSE sdl_should_quit(p)

platform_apply_settings(c, p) ==
    IF p.name = "headless" THEN headless_apply_settings(c) ELSE sdl_apply_settings(c)

(***************************************************************************)
(* instructions.h: arithmetic macros.  V[] holds uint8_t values; the       *)
(* assignments to V[x] truncate to 8 bits.                                 *)
(***************************************************************************)
\* an ADD that sets the flag first and the sum last
CHIP8_ADD_VX_VY_Mut(c, x, y) ==
    LET _sum == c.V[x] + c.V[y]
        c1 == [c EXCEPT !.V[15] = IF _sum > 255 THEN 1 ELSE 0]
    IN [c1 EXCEPT !.V[x] = _sum % 256]

CHIP8_ADD_VX_VY(c, x, y) ==
    LET _sum == c.V[x] + c.V[y]
        c1 == [c EXCEPT !.V[x] = _sum % 256]
    IN [c1 EXCEPT !.V[15] = IF _sum > 255 THEN 1 ELSE 0]

CHIP8_SUB_VX_VY(c, x, y) ==
    LET _vx == c.V[x]
        _vy == c.V[y]
        c1 == [c EXCEPT !.V[x] = (_vx - _vy + 256) % 256]
    IN [c1 EXCEPT !.V[15] = IF _vx >= _vy THEN 1 ELSE 0]

CHIP8_SUBN_VX_VY(c, x, y) ==
    LET _vx == c.V[x]
        _vy == c.V[y]
        c1 == [c EXCEPT !.V[x] = (_vy - _vx + 256) % 256]
    IN [c1 EXCEPT !.V[15] = IF _vy >= _vx THEN 1 ELSE 0]

CHIP8_SHR_VX(c, x) ==
    LET _vx == c.V[x]
        c1 == [c EXCEPT !.V[x] = _vx \div 2]
    IN [c1 EXCEPT !.V[15] = _vx % 2]

CHIP8_SHR_VX_VY(c, x, y) ==
    LET _vy == c.V[y]
        c1 == [c EXCEPT !.V[x] = _vy \div 2]
    IN [c1 EXCEPT !.V[15] = _vy % 2]

CHIP8_SHL_VX(c, x) ==
    LET _vx == c.V[x]
        c1 == [c EXCEPT !.V[x] = (_vx * 2) % 256]
    IN [c1 EXCEPT !.V[15] = _vx \div 128]

CHIP8_SHL_VX_VY(c, x, y) ==
    LET _vy == c.V[y]
        c1 == [c EXCEPT !.V[x] = (_vy * 2) % 256]
    IN [c1 EXCEPT !.V[15] = _vy \div 128]

\* the ALU kinds of the 8XYn group that set VF
AluKinds == {"ADD", "SUB", "SUBN", "SHR", "SHR_VY", "SHL", "SHL_VY"}

AluApply(c, kind, x, y) ==
    CASE kind = "ADD"    -> CHIP8_ADD_VX_VY(c, x, y)
      [] kind = "SUB"    -> CHIP8_SUB_VX_VY(c, x, y)
      [] kind = "SUBN"   -> CHIP8_SUBN_VX_VY(c, x, y)
      [] kind = "SHR"    -> CHIP8_SHR_VX(c, x)
      [] kind = "SHR_VY" -> CHIP8_SHR_VX_VY(c, x, y)
      [] kind = "SHL"    -> CHIP8_SHL_VX(c, x)
      [] kind = "SHL_VY" -> CHIP8_SHL_VX_VY(c, x, y)

(***************************************************************************)
(* instructions.c.  display is the set of the indexes y * 64 + x of the    *)
(* pixels that are on.                                                     *)
(***************************************************************************)
CHIP8_DISPLAY_WIDTH == 64
CHIP8_DISPLAY_HEIGHT == 32

\* sprite_byte & (0x80 >> col)
SpriteBit(sprite_byte, col) == (sprite_byte \div (2 ^ (7 - col))) % 2 = 1

\* a column loop that sets the pixel instead of toggling it
RECURSIVE DrawCols_Mut(_, _, _, _, _)
DrawCols_Mut(s, sprite_byte, x, yrow, col) ==
    IF col >= 8 \/ x + col >= CHIP8_DISPLAY_WIDTH THEN s
    ELSE IF SpriteBit(sprite_byte, col)
         THEN LET pixel_idx == yrow * CHIP8_DISPLAY_WIDTH + (x + col)
                  on == pixel_idx \in s.display
              IN DrawCols_Mut([display |-> s.display \cup {pixel_idx},
                               vf |-> IF on THEN 1 ELSE s.vf],
                              sprite_byte, x, yrow, col + 1)
         ELSE DrawCols_Mut(s, sprite_byte, x, yrow, col + 1)

\* the inner loop of chip8_draw_sprite from column col on; s is the
\* display and VF so far
RECURSIVE DrawCols(_, _, _, _, _)
DrawCols(s, sprite_byte, x, yrow, col) ==
    IF col >= 8 \/ x + col >= CHIP8_DISPLAY_WIDTH THEN s
    ELSE IF SpriteBit(sprite_byte, col)
         THEN LET pixel_idx == yrow * CHIP8_DISPLAY_WIDTH + (x + col)
                  on == pixel_idx \in s.display
              IN DrawCols([display |-> IF on THEN s.display \ {pixel_idx}
                                       ELSE s.display \cup {pixel_idx},
                           vf |-> IF on THEN 1 ELSE s.vf],
                          sprite_byte, x, yrow, col + 1)
         ELSE DrawCols(s, sprite_byte, x, yrow, col + 1)

\* a row loop without the test for the bottom of the screen
RECURSIVE DrawRows_Mut(_, _, _, _, _, _)
DrawRows_Mut(s, c, x, y, height, row) ==
    IF row >= height THEN s
    ELSE DrawRows_Mut(DrawCols(s, MemRead(c.memory, c.I + row), x,
                               (y + row) % CHIP8_DISPLAY_HEIGHT, 0),
                      c, x, y, height, row + 1)

\* the outer loop of chip8_draw_sprite from row on
RECURSIVE DrawRows(_, _, _, _, _, _)
DrawRows(s, c, x, y, height, row) ==
    IF row >= height \/ y + row >= CHIP8_DISPLAY_HEIGHT THEN s
    ELSE DrawRows(DrawCols(s, MemRead(c.memory, c.I + row), x, y + row, 0),
                  c, x, y, height, row + 1)

chip8_draw_sprite(c, vx, vy, height) ==
    LET x == c.V[vx] % CHIP8_DISPLAY_WIDTH
        y == c.V[vy] % CHIP8_DISPLAY_HEIGHT
        s == DrawRows([display |-> c.display, vf |-> 0], c, x, y, height, 0)
    IN [c EXCEPT !.V[15] = s.vf, !.display = s.display, !.display_dirty = TRUE]

\* the copy loops of chip8_store_registers and chip8_load_registers from
\* register i on
RECURSIVE StoreLoop(_, _, _, _)
StoreLoop(mem, c, x, i) ==
    IF i > x THEN mem
    ELSE StoreLoop(MemWrite(mem, c.I + i, c.V[i]), c, x, i + 1)

\* a store that does not move I
chip8_store_registers_Mut(c, x, increment_i) ==
    [c EXCEPT !.memory = StoreLoop(c.memory, c, x, 0)]

chip8_store_registers(c, x, increment_i) ==
    [c EXCEPT !.memory = StoreLoop(c.memory, c, x, 0),
              !.I = IF increment_i THEN (c.I + x + 1) % 65536 ELSE c.I]

chip8_load_registers(c, x, increment_i) ==
    [c EXCEPT !.V = [i \in Regs |-> IF i <= x THEN MemRead(c.memory, c.I + i)
                                    ELSE c.V[i]],
              !.I = IF increment_i THEN (c.I + x + 1) % 65536 ELSE c.I]

chip8_store_bcd(c, x) ==
    LET value == c.V[x]
        m1 == MemWrite(c.memory, c.I, value \div 100)
        m2 == MemWrite(m1, c.I + 1, (value \div 10) % 10)
    IN [c EXCEPT !.memory = MemWrite(m2, c.I + 2, value % 10)]

\* the indexes of memory[] the helpers of instructions.c address.  I is
\* promoted to int, so I + row does not wrap.  The sprite loop reads row
\* before it tests whether the row is past the bottom of the screen.
chip8_draw_sprite_indexes(c, vx, vy, height) ==
    LET y == c.V[vy] % CHIP8_DISPLAY_HEIGHT
    IN { c.I + row : row \in { r \in 0..(height - 1) :
                                 r = 0 \/ y + (r - 1) < CHIP8_DISPLAY_HEIGHT } }

chip8_store_bcd_indexes(c) == { c.I, c.I + 1, c.I + 2 }

\* chip8_store_registers and chip8_load_registers
chip8_registers_indexes(c, x) == { c.I + i : i \in 0..x }

(***************************************************************************)
(* instructions.h: memory access helpers.  addr is a uint16_t.             *)
(***************************************************************************)
chip8_read_byte(c, addr) == MemRead(c.memory, BitAnd(addr, 4095))

chip8_read_byte_indexes(addr) == { BitAnd(addr, 4095) }

chip8_read_word(c, addr) ==
    LET masked == BitAnd(addr, 4095)
    IN MemRead(c.memory, masked) * 256 + MemRead(c.memory, masked + 1)

chip8_read_word_indexes(addr) == { BitAnd(addr, 4095), BitAnd(addr, 4095) + 1 }

(***************************************************************************)
(* The recompiler: rom.cpp and decoder.cpp.  A ROM is the sequence of its  *)
(* bytes; an Instruction is a record of the decoded fields and flow flags. *)
(***************************************************************************)
MAX_ROM_SIZE == 4096 - 512
MIN_ROM_SIZE == 2

\* load_rom and validate_rom: the ROM is accepted
validate_rom(data) ==
    /\ Len(data) # 0
    /\ ~(Len(data) > MAX_ROM_SIZE)
    /\ ~(Len(data) < MIN_ROM_SIZE)

\* the instruction with its flow flags cleared
Instr(opcode, address, type) ==
    [ address |-> address, opcode |-> opcode, type |-> type,
      x |-> (opcode \div 256) % 16,
      y |-> (opcode \div 16) % 16,
      n |-> opcode % 16,
      nn |-> opcode % 256,
      nnn |-> opcode % 4096,
      is_jump |-> FALSE, is_branch |-> FALSE, is_call |-> FALSE,
      is_return |-> FALSE, is_terminator |-> FALSE ]

Arith8Type(n) ==
    CASE n = 0 -> "LD_VX_VY"
      [] n = 1 -> "OR_VX_VY"
      [] n = 2 -> "AND_VX_VY"
      [] n = 3 -> "XOR_VX_VY"
      [] n = 4 -> "ADD_VX_VY"
      [] n = 5 -> "SUB_VX_VY"
      [] n = 6 -> "SHR_VX"
      [] n = 7 -> "SUBN_VX_VY"
      [] n = 14 -> "SHL_VX"
      [] OTHER -> "UNKNOWN"

MiscFType(nn) ==
    CASE nn = 7 -> "LD_VX_DT"
      [] nn = 10 -> "LD_VX_K"
      [] nn = 21 -> "LD_DT_VX"
      [] nn = 24 -> "LD_ST_VX"
      [] nn = 30 -> "ADD_I_VX"
      [] nn = 41 -> "LD_F_VX"
      [] nn = 51 -> "LD_B_VX"
      [] nn = 85 -> "LD_I_VX"
      [] nn = 101 -> "LD_VX_I"
      [] OTHER -> "UNKNOWN"

\* a decoder that marks every 5XYn as a skip
decode_opcode_Mut(opcode, address) ==
    LET op == opcode \div 4096
        n == opcode % 16
        nn == opcode % 256
        I(type) == Instr(opcode, address, type)
    IN CASE op = 0 ->
              IF opcode = 224 THEN I("CLS")
              ELSE IF opcode = 238
                   THEN [I("RET") EXCEPT !.is_return = TRUE, !.is_terminator = TRUE]
                   ELSE I("SYS")
         [] op = 1 -> [I("JP") EXCEPT !.is_jump = TRUE, !.is_terminator = TRUE]
         [] op = 2 -> [I("CALL") EXCEPT !.is_call = TRUE]
         [] op = 3 -> [I("SE_VX_NN") EXCEPT !.is_branch = TRUE]
         [] op = 4 -> [I("SNE_VX_NN") EXCEPT !.is_branch = TRUE]
         [] op = 5 -> [I(IF n = 0 THEN "SE_VX_VY" ELSE "UNKNOWN") EXCEPT !.is_branch = TRUE]
         [] op = 6 -> I("LD_VX_NN")
         [] op = 7 -> I("ADD_VX_NN")
         [] op = 8 -> I(Arith8Type(n))
         [] op = 9 -> IF n = 0 THEN [I("SNE_VX_VY") EXCEPT !.is_branch = TRUE]
                      ELSE I("UNKNOWN")
         [] op = 10 -> I("LD_I_NNN")
         [] op = 11 -> [I("JP_V0") EXCEPT !.is_jump = TRUE, !.is_terminator = TRUE]
         [] op = 12 -> I("RND")
         [] op = 13 -> I("DRW")
         [] op = 14 -> IF nn = 158 THEN [I("SKP") EXCEPT !.is_branch = TRUE]
                       ELSE IF nn = 161 THEN [I("SKNP") EXCEPT !.is_branch = TRUE]
                       ELSE I("UNKNOWN")
         [] op = 15 -> I(MiscFType(nn))

decode_opcode(opcode, address) ==
    LET op == opcode \div 4096
        n == opcode % 16
        nn == opcode % 256
        I(type) == Instr(opcode, address, type)
    IN CASE op = 0 ->
              IF opcode = 224 THEN I("CLS")
              ELSE IF opcode = 238
                   THEN [I("RET") EXCEPT !.is_return = TRUE, !.is_terminator = TRUE]
                   ELSE I("SYS")
         [] op = 1 -> [I("JP") EXCEPT !.is_jump = TRUE, !.is_terminator = TRUE]
         [] op = 2 -> [I("CALL") EXCEPT !.is_call = TRUE]
         [] op = 3 -> [I("SE_VX_NN") EXCEPT !.is_branch = TRUE]
         [] op = 4 -> [I("SNE_VX_NN") EXCEPT !.is_branch = TRUE]
         [] op = 5 -> IF n = 0 THEN [I("SE_VX_VY") EXCEPT !.is_branch = TRUE]
                      ELSE I("UNKNOWN")
         [] op = 6 -> I("LD_VX_NN")
         [] op = 7 -> I("ADD_VX_NN")
         [] op = 8 -> I(Arith8Type(n))
         [] op = 9 -> IF n = 0 THEN [I("SNE_VX_VY") EXCEPT !.is_branch = TRUE]
                      ELSE I("UNKNOWN")
         [] op = 10 -> I("LD_I_NNN")
         [] op = 11 -> [I("JP_V0") EXCEPT !.is_jump = TRUE, !.is_terminator = TRUE]
         [] op = 12 -> I("RND")
         [] op = 13 -> I("DRW")
         [] op = 14 -> IF nn = 158 THEN [I("SKP") EXCEPT !.is_branch = TRUE]
                       ELSE IF nn = 161 THEN [I("SKNP") EXCEPT !.is_branch = TRUE]
                       ELSE I("UNKNOWN")
         [] op = 15 -> I(MiscFType(nn))

\* a decoder loop that also takes the odd last byte, with a zero after it
decode_rom_Mut(rom_data, rom_size, base_address) ==
    [ k \in 1..((rom_size + 1) \div 2) |->
        LET i == 2 * (k - 1)
        IN decode_opcode(rom_data[i + 1] * 256
                             + (IF i + 2 <= rom_size THEN rom_data[i + 2] ELSE 0),
                         (base_address + i) % 65536) ]

\* the records in the order of the loop  for (i = 0; i + 1 < rom_size; i += 2)
decode_rom(rom_data, rom_size, base_address) ==
    [ k \in 1..Cardinality({ i \in 0..(rom_size - 1) : i % 2 = 0 /\ i + 1 < rom_size }) |->
        LET i == 2 * (k - 1)
        IN decode_opcode(rom_data[i + 1] * 256 + rom_data[i + 2],
                         (base_address + i) % 65536) ]

(***************************************************************************)
(* analyzer.cpp: passes 1 and 2 of analyze.  instruction_indices holds the *)
(* 0-based indexes of the source; addresses are uint16_t.                  *)
(***************************************************************************)
U16(v) == v % 65536

\* addr_to_idx.count(a)
Decoded(instructions, a) == \E k \in DOMAIN instructions : instructions[k].address = a

\* addr_to_idx[a], 0-based
AddrToIdx(instructions, a) ==
    (CHOOSE k \in DOMAIN instructions :
         /\ instructions[k].address = a
         /\ \A j \in DOMAIN instructions : instructions[j].address = a => j <= k) - 1

IsSkipType(type) ==
    type \in {"SE_VX_NN", "SNE_VX_NN", "SE_VX_VY", "SNE_VX_VY", "SKP", "SKNP"}

\* a pass 1 that does not enter the entry point among the call targets
CallTargetsOf_Mut(instructions, entry_point) ==
    { instructions[k].nnn : k \in { j \in DOMAIN instructions : instructions[j].type = "CALL" } }

\* pass 1
CallTargetsOf(instructions, entry_point) ==
    {entry_point} \cup
    { instructions[k].nnn : k \in { j \in DOMAIN instructions : instructions[j].type = "CALL" } }

LabelAddressesOf(instructions) ==
    { instructions[k].nnn :
        k \in { j \in DOMAIN instructions : instructions[j].type \in {"JP", "CALL"} } }
    \cup UNION { { U16(instructions[k].address + 2), U16(instructions[k].address + 4) } :
                   k \in { j \in DOMAIN instructions : IsSkipType(instructions[j].type) } }

ComputedJumpBasesOf(instructions) ==
    { instructions[k].nnn : k \in { j \in DOMAIN instructions : instructions[j].type = "JP_V0" } }

\* block starts without the label addresses
BlockStartsOf_Mut(instructions, entry_point) ==
    {entry_point}
    \cup CallTargetsOf(instructions, entry_point)
    \cup { U16(instructions[k].address + 2) :
             k \in { j \in DOMAIN instructions :
                       /\ instructions[j].is_terminator
                       /\ Decoded(instructions, U16(instructions[j].address + 2)) } }

\* pass 2: the block starts
BlockStartsOf(instructions, entry_point) ==
    {entry_point}
    \cup LabelAddressesOf(instructions)
    \cup CallTargetsOf(instructions, entry_point)
    \cup { U16(instructions[k].address + 2) :
             k \in { j \in DOMAIN instructions :
                       /\ instructions[j].is_terminator
                       /\ Decoded(instructions, U16(instructions[j].address + 2)) } }

\* a loop that runs on into the next block
RECURSIVE BlockLoop_Mut(_, _, _, _)
BlockLoop_Mut(block, instructions, block_starts, idx) ==
    IF ~(idx < Len(instructions)) THEN block
    ELSE LET instr == instructions[idx + 1]
             b1 == [block EXCEPT !.instruction_indices = Append(@, idx),
                                 !.end_address = U16(instr.address + 2)]
         IN IF instr.is_jump \/ instr.is_return \/ instr.is_branch \/ instr.is_terminator
            THEN b1
            ELSE BlockLoop_Mut(b1, instructions, block_starts, idx + 1)

\* the while loop that fills a block, from the 0-based index idx on
RECURSIVE BlockLoop(_, _, _, _)
BlockLoop(block, instructions, block_starts, idx) ==
    IF ~(idx < Len(instructions)) THEN block
    ELSE LET instr == instructions[idx + 1]
         IN IF instr.address # block.start_address /\ instr.address \in block_starts
            THEN block
            ELSE LET b1 == [block EXCEPT !.instruction_indices = Append(@, idx),
                                         !.end_address = U16(instr.address + 2)]
                 IN IF instr.is_jump
                    THEN IF instr.type = "JP"
                         THEN [b1 EXCEPT !.successors = Append(@, instr.nnn)]
                         ELSE b1
                    ELSE IF instr.is_return THEN b1
                    ELSE IF instr.is_branch
                    THEN [b1 EXCEPT !.successors = @ \o << U16(instr.address + 2),
                                                            U16(instr.address + 4) >>,
                                    !.internal_labels = @ \cup {U16(instr.address + 4)}]
                    ELSE IF instr.is_terminator THEN b1
                    ELSE BlockLoop(b1, instructions, block_starts, idx + 1)

\* one block: the loop and the fall-through successor
BuildBlock(instructions, block_starts, call_targets, start_addr) ==
    LET b0 == [ start_address |-> start_addr, end_address |-> 0,
                instruction_indices |-> << >>, successors |-> << >>,
                predecessors |-> << >>, internal_labels |-> {},
                is_function_entry |-> start_addr \in call_targets,
                is_reachable |-> FALSE ]
        b1 == BlockLoop(b0, instructions, block_starts,
                        AddrToIdx(instructions, start_addr))
    IN IF b1.instruction_indices # << >>
       THEN LET last_instr ==
                    instructions[b1.instruction_indices[Len(b1.instruction_indices)] + 1]
            IN IF /\ ~last_instr.is_terminator /\ ~last_instr.is_return
                  /\ Decoded(instructions, b1.end_address)
               THEN [b1 EXCEPT !.successors = Append(@, b1.end_address)]
               ELSE b1
       ELSE b1

\* the elements of a set of addresses in ascending order: the iteration
\* order of std::set and std::map
RECURSIVE Ascending(_)
Ascending(S) ==
    IF S = {} THEN << >>
    ELSE LET lo == CHOOSE a \in S : \A b \in S : a <= b
         IN << lo >> \o Ascending(S \ {lo})

\* the entries of the sequence s that satisfy Keep, in order
RECURSIVE SelectIn(_, _)
SelectIn(s, keep) ==
    IF s = << >> THEN << >>
    ELSE (IF Head(s) \in keep THEN << Head(s) >> ELSE << >>) \o SelectIn(Tail(s), keep)

\* pass 3 for the block b: one entry for every occurrence of b among the
\* successors of the blocks, taken in ascending order of their addresses
RECURSIVE PredecessorsOf(_, _, _)
PredecessorsOf(blocks, order, b) ==
    IF order = << >> THEN << >>
    ELSE LET a == Head(order)
             hits == SelectIn(blocks[a].successors, {b})
         IN [ i \in 1..Len(hits) |-> a ] \o PredecessorsOf(blocks, Tail(order), b)

\* a pass 3 that records the predecessors of the blocks after the first only
BuildPredecessors_Mut(blocks) ==
    [ b \in DOMAIN blocks |->
        [ blocks[b] EXCEPT !.predecessors =
            IF \A a \in DOMAIN blocks : b <= a THEN << >>
            ELSE PredecessorsOf(blocks, Ascending(DOMAIN blocks), b) ] ]

BuildPredecessors(blocks) ==
    [ b \in DOMAIN blocks |->
        [ blocks[b] EXCEPT !.predecessors =
            PredecessorsOf(blocks, Ascending(DOMAIN blocks), b) ] ]

\* pass 4: the worklist loop; marked is the set of the blocks with
\* is_reachable set
RECURSIVE MarkLoop(_, _, _)
MarkLoop(blocks, worklist, marked) ==
    IF worklist = << >> THEN marked
    ELSE LET addr == Head(worklist)
         IN IF addr \notin DOMAIN blocks \/ addr \in marked
            THEN MarkLoop(blocks, Tail(worklist), marked)
            ELSE MarkLoop(blocks, Tail(worklist) \o blocks[addr].successors,
                          marked \cup {addr})

\* a pass 4 that starts from the entry point alone
MarkReachable_Mut(blocks, entry_point, call_targets) ==
    LET marked == MarkLoop(blocks, << entry_point >>, {})
    IN [ b \in DOMAIN blocks |-> [ blocks[b] EXCEPT !.is_reachable = b \in marked ] ]

MarkReachable(blocks, entry_point, call_targets) ==
    LET marked == MarkLoop(blocks, << entry_point >> \o Ascending(call_targets), {})
    IN [ b \in DOMAIN blocks |-> [ blocks[b] EXCEPT !.is_reachable = b \in marked ] ]

\* pass 5: the worklist loop that collects the blocks of the function target
RECURSIVE FunctionLoop(_, _, _, _, _)
FunctionLoop(blocks, call_targets, target, worklist, block_addresses) ==
    IF worklist = << >> THEN block_addresses
    ELSE LET block_addr == Head(worklist)
             visited == { block_addresses[i] : i \in 1..Len(block_addresses) }
         IN IF \/ block_addr \in visited
               \/ block_addr \notin DOMAIN blocks
               \/ block_addr # target /\ block_addr \in call_targets
            THEN FunctionLoop(blocks, call_targets, target, Tail(worklist),
                              block_addresses)
            ELSE FunctionLoop(blocks, call_targets, target,
                              Tail(worklist) \o blocks[block_addr].successors,
                              Append(block_addresses, block_addr))

BuildFunctions(blocks, call_targets) ==
    [ target \in { t \in call_targets : t \in DOMAIN blocks } |->
        [ entry_address |-> target,
          block_addresses |->
              FunctionLoop(blocks, call_targets, target, << target >>, << >>) ] ]

\* passes 1 and 2: blocks maps a start address to its block
AnalyzeBlocks(instructions, entry_point) ==
    LET call_targets == CallTargetsOf(instructions, entry_point)
        block_starts == BlockStartsOf(instructions, entry_point)
    IN [ entry_point |-> entry_point,
         call_targets |-> call_targets,
         label_addresses |-> LabelAddressesOf(instructions),
         computed_jump_bases |-> ComputedJumpBasesOf(instructions),
         blocks |-> [ a \in { s \in block_starts : Decoded(instructions, s) } |->
                        BuildBlock(instructions, block_starts, call_targets, a) ],
         functions |-> << >> ]

analyze(instructions, entry_point) ==
    IF instructions = << >>
    THEN [ entry_point |-> entry_point, call_targets |-> {}, label_addresses |-> {},
           computed_jump_bases |-> {}, blocks |-> << >>,
           functions |-> << >> ]
    ELSE LET r2 == AnalyzeBlocks(instructions, entry_point)
             b3 == BuildPredecessors(r2.blocks)
             b4 == MarkReachable(b3, entry_point, r2.call_targets)
         IN [ r2 EXCEPT !.blocks = b4,
                        !.functions = BuildFunctions(b4, r2.call_targets) ]

(***************************************************************************)
(* The state of the batch launcher process                                 *)
(***************************************************************************)
VARIABLES
    lpc,                \* chip8_run_with_menu: "select", "run" or "exited"
    g_selected_rom,     \* rom_selector.cpp globals
    g_launch_selected,
    g_return_to_menu,
    g_should_quit,
    g_multi_rom_mode,   \* menu.c global
    g_func_table,       \* runtime.c global
    rom,                \* catalog entry being run (0: none)
    ctx,                \* chip8_run: the machine context
    menu,               \* chip8_run: pause menu state
    settings,           \* chip8_run: settings.gameplay
    plat,               \* SDLPlatformData
    pause_key_released, \* chip8_run local
    was_beeping,        \* chip8_run local
    pc,                 \* chip8_run: position in the main loop
    rpc,                \* emitted code: the routine and address executing
    exit_code,          \* process exit status (-1: running)
    ref,                \* reference machine: same instructions, no yields
    gh,                 \* history of the run
    rc                  \* the recompiler process (main.cpp)

vars == << lpc, g_selected_rom, g_launch_selected, g_return_to_menu, g_should_quit,
           g_multi_rom_mode, g_func_table, rom, ctx, menu, settings, plat,
           pause_key_released, was_beeping, pc, rpc, exit_code, ref, gh, rc >>

launcher_vars == << g_selected_rom, g_launch_selected, g_should_quit >>

RomCount == Cardinality(RomIds)

NoContext == [running |-> FALSE]

\* no recompiler is running
NoRecompile == [stage |-> "none"]

\* history of one run of chip8_run; the frame_ fields describe the frame
\* in progress
gh_launch ==
    [ frames |-> 0,            \* frames begun with the menu closed
      entry_calls |-> 0,       \* calls of the entry routine
      flog |-> << >>,          \* what the frame has done so far, in order
      frame_calls |-> 0,       \* calls of the entry routine
      frame_exec |-> 0,        \* instructions executed
      frame_cycles |-> 0,      \* the budget the call was given
      frame_waiting |-> FALSE, \* waiting for a key after key handling
      frame_yield |-> FALSE,   \* the call ended in a yield
      all_checked |-> TRUE,    \* every instruction had a yield check
      count_before |-> 0,      \* instruction_count when the frame began
      wait_released |-> -1,    \* key of the last key-up polled while waiting
      wait_done |-> FALSE,     \* key handling completed a wait
      exec_waiting |-> FALSE,  \* an instruction executed while waiting
      last_jump |-> JumpLog(FALSE, NoJump, 0, 0),   \* the last computed jump
      adjusts |-> 0,           \* changes of the CPU speed
      quit_seen |-> FALSE,     \* the menu set quit_requested
      esc_seen |-> FALSE,      \* the frame's sdl_poll_events took an ESC key-down
      menu_seen |-> FALSE,     \* the run before ended with a call of
                               \* chip8_request_return_to_menu
      reset_pending |-> FALSE, \* the menu frame reset the machine and the
                               \* entry routine has not been called since
      switched |-> FALSE ]     \* the launch replaced another ROM's table and
                               \* the run has not executed an instruction yet

Init ==
    /\ lpc = "select"
    /\ g_selected_rom = 0
    /\ g_launch_selected = FALSE
    /\ g_return_to_menu = FALSE
    /\ g_should_quit = FALSE
    /\ g_multi_rom_mode = FALSE
    /\ g_func_table = {}
    /\ rom = 0
    /\ ctx = NoContext
    /\ menu = chip8_menu_init(DefaultCpuHz)
    /\ settings = [cpu_freq_hz |-> DefaultCpuHz]
    /\ plat = sdl_init
    /\ pause_key_released = TRUE
    /\ was_beeping = FALSE
    /\ pc = "none"
    /\ rpc = Fn(0, 0)
    /\ exit_code = -1
    /\ ref = [ctx |-> NoContext, rpc |-> Fn(0, 0)]
    /\ gh = gh_launch
    /\ rc = NoRecompile

(***************************************************************************)
(* chip8_run_with_menu: one pass of the ROM selection loop.  ev is the     *)
(* event of this pass and click the list item clicked (-1: none).  When a  *)
(* ROM is selected the pass runs on into chip8_run up to its main loop;    *)
(* init_ok is the outcome of the platform's init.                          *)
(***************************************************************************)
LauncherEvents == {"none", "up", "down", "return", "escape", "quit"}

\* chip8_run from its start to the main loop: [ok, ctx, settings, menu]
chip8_run_start(r, cpu_freq_hz, init_ok) ==
    LET load == chip8_context_load_program(chip8_context_create, RomData(r), RomSize(r))
        cpu == IF cpu_freq_hz # DefaultCpuHz THEN cpu_freq_hz ELSE DefaultCpuHz
    IN [ ok |-> load.ok /\ init_ok,
         ctx |-> sdl_apply_settings(load.ctx),
         settings |-> [cpu_freq_hz |-> cpu],
         menu |-> chip8_menu_init(cpu) ]

\* the launcher's steps between the selection and the call of chip8_run
\* the register hook called before the table is cleared
LaunchTable_Mut(table, r) == chip8_clear_function_table(register_functions(table, r))

LaunchTable(table, r) == register_functions(chip8_clear_function_table(table), r)

LaunchCpuFreq(r) ==
    IF RecommendedCpuFreq(r) > 0 THEN RecommendedCpuFreq(r) ELSE LauncherDefaultHz

LauncherFrame(ev, click, init_ok) ==
    /\ lpc = "select"
    /\ UNCHANGED rc
    /\ LET sel1 == CASE ev = "up" /\ g_selected_rom > 0 -> g_selected_rom - 1
                     [] ev = "down" /\ g_selected_rom < RomCount - 1 -> g_selected_rom + 1
                     [] OTHER -> g_selected_rom
           quit == g_should_quit \/ ev \in {"quit", "escape"}
           launch1 == g_launch_selected \/ ev = "return"
           sel2 == IF click >= 0 THEN click ELSE sel1
           selected == IF click >= 0 THEN click ELSE IF launch1 THEN sel1 ELSE -1
       IN IF quit
          THEN /\ g_should_quit' = TRUE
               /\ lpc' = "exited"
               /\ exit_code' = 0
               /\ UNCHANGED << g_selected_rom, g_launch_selected, g_return_to_menu,
                               g_multi_rom_mode, g_func_table, rom, ctx, menu, settings,
                               plat, pause_key_released, was_beeping, pc, rpc, ref, gh >>
          ELSE IF selected < 0
          THEN /\ g_selected_rom' = sel2
               /\ g_launch_selected' = FALSE
               /\ UNCHANGED << lpc, g_return_to_menu, g_should_quit, g_multi_rom_mode,
                               g_func_table, rom, ctx, menu, settings, plat,
                               pause_key_released, was_beeping, pc, rpc, exit_code,
                               ref, gh >>
          ELSE LET r == selected + 1
                   run == chip8_run_start(r, LaunchCpuFreq(r), init_ok)
               IN /\ g_selected_rom' = sel2
                  /\ g_launch_selected' = FALSE
                  /\ g_func_table' = LaunchTable(g_func_table, r)
                  /\ g_multi_rom_mode' = TRUE
                  /\ g_return_to_menu' = FALSE
                  /\ rom' = r
                  /\ gh' = [gh_launch EXCEPT !.switched = \E e \in g_func_table : e.fn.rom # r]
                  /\ UNCHANGED << g_should_quit, rpc >>
                  /\ IF run.ok
                     THEN /\ lpc' = "run"
                          /\ pc' = "loop"
                          /\ ctx' = run.ctx
                          /\ ref' = [ctx |-> run.ctx, rpc |-> Fn(r, CHIP8_PROGRAM_START)]
                          /\ settings' = run.settings
                          /\ menu' = run.menu
                          /\ plat' = sdl_init
                          /\ pause_key_released' = TRUE
                          /\ was_beeping' = FALSE
                          /\ exit_code' = -1
                     ELSE /\ lpc' = "exited"
                          /\ exit_code' = 1
                          /\ pc' = "none"
                          /\ UNCHANGED << ctx, ref, settings, menu, plat,
                                          pause_key_released, was_beeping >>

(***************************************************************************)
(* chip8_run: the main loop.  A frame with the pause menu closed passes    *)
(* through poll, key wait/entry call, timer tick and render; PhaseAfter    *)
(* gives the statement that follows each of them.                          *)
(***************************************************************************)
\* a main loop that ticks the timers before it runs the instructions
PhaseAfter_Mut(phase) ==
    CASE phase = "poll" -> "tick"
      [] phase = "tick" -> "keywait"
      [] phase = "keywait" -> "render"
      [] phase = "exec" -> "render"
      [] phase = "render" -> "loop"

PhaseAfter(phase) ==
    CASE phase = "poll" -> "keywait"
      [] phase = "keywait" -> "tick"
      [] phase = "exec" -> "tick"
      [] phase = "tick" -> "render"
      [] phase = "render" -> "loop"

\* the condition of the while loop
LoopCondition(c, p) == c.running /\ ~platform_should_quit(p)

\* the real machine's next instruction when it is outside the entry routine
EntryTarget(c, r) == Fn(r, EntryPrologue(c, r).pc)

\* chip8_run leaves its loop: it shuts down, destroys the context and
\* returns 0; its locals and the platform data cease to exist.  The launcher
\* goes back to its selection loop or returns.  back: g_return_to_menu as the
\* launcher reads it; init_ok: the outcome of re-initialising the launcher's
\* window.
\* a launcher that presents its selection again whatever ended the run
RunReturn_Mut(back) ==
    /\ pc' = "none"
    /\ ctx' = NoContext
    /\ ref' = [ctx |-> NoContext, rpc |-> Fn(0, 0)]
    /\ menu' = chip8_menu_init(DefaultCpuHz)
    /\ settings' = [cpu_freq_hz |-> DefaultCpuHz]
    /\ plat' = sdl_init
    /\ pause_key_released' = TRUE
    /\ was_beeping' = FALSE
    /\ rpc' = Fn(0, 0)
    /\ rom' = 0
    /\ lpc' = "select" /\ g_return_to_menu' = FALSE /\ UNCHANGED exit_code
    /\ UNCHANGED << launcher_vars, g_multi_rom_mode, g_func_table >>

RunReturn(back) ==
    /\ pc' = "none"
    /\ ctx' = NoContext
    /\ ref' = [ctx |-> NoContext, rpc |-> Fn(0, 0)]
    /\ menu' = chip8_menu_init(DefaultCpuHz)
    /\ settings' = [cpu_freq_hz |-> DefaultCpuHz]
    /\ plat' = sdl_init
    /\ pause_key_released' = TRUE
    /\ was_beeping' = FALSE
    /\ rpc' = Fn(0, 0)
    /\ rom' = 0
    /\ IF back
       THEN \E init_ok \in BOOLEAN :
                IF init_ok
                THEN lpc' = "select" /\ g_return_to_menu' = FALSE /\ UNCHANGED exit_code
                ELSE lpc' = "exited" /\ exit_code' = 1 /\ g_return_to_menu' = TRUE
       ELSE lpc' = "exited" /\ exit_code' = 0 /\ g_return_to_menu' = FALSE
    /\ UNCHANGED << launcher_vars, g_multi_rom_mode, g_func_table >>

\* the logged frame has not reached its end (render, or the opening of the
\* pause menu straight after the poll)
FrameOpen(log) == log # << >> /\ log[Len(log)] \notin {"poll", "render"}

GamePoll(inp, ev) ==
    /\ lpc = "run" /\ pc = "loop"
    /\ UNCHANGED rc
    /\ LoopCondition(ctx, plat)
    /\ ~chip8_menu_is_open(menu)
    /\ gh.frames < MaxFrames
    /\ LET pe == platform_poll_events(ctx, plat, inp)
           pm == platform_poll_menu_events(pe.ctx, pe.plat, ev)
           open == pm.nav = "BACK" /\ pause_key_released
       IN IF open /\ ~LoopCondition(pm.ctx, pm.plat)
          THEN /\ RunReturn(g_return_to_menu)
               /\ gh' = gh_launch
          ELSE /\ ctx' = pm.ctx
               /\ plat' = pm.plat
               /\ ref' = [ref EXCEPT !.ctx = pm.ctx]
               /\ menu' = IF open THEN chip8_menu_open(menu, g_multi_rom_mode) ELSE menu
               /\ pause_key_released' = IF open THEN FALSE ELSE pm.nav # "BACK"
               /\ pc' = IF open THEN "loop" ELSE PhaseAfter("poll")
               /\ gh' = [gh EXCEPT !.flog = IF FrameOpen(@) THEN Append(@, "poll")
                                             ELSE <<"poll">>,
                                   !.frames = IF open THEN @ ELSE @ + 1,
                                   !.frame_calls = 0,
                                   !.frame_exec = 0,
                                   !.frame_cycles = 0,
                                   !.frame_waiting = FALSE,
                                   !.frame_yield = FALSE,
                                   !.all_checked = TRUE,
                                   !.count_before = ctx.instruction_count,
                                   !.wait_done = FALSE,
                                   !.esc_seen = inp.esc,
                                   !.wait_released =
                                       IF inp.up >= 0 /\ ctx.waiting_for_key THEN inp.up ELSE @]
               /\ UNCHANGED << lpc, launcher_vars, g_return_to_menu, g_multi_rom_mode,
                               g_func_table, rom, settings, was_beeping, rpc, exit_code >>

\* a main loop that does not look at quit_requested
MenuOutcome_Mut(m) == IF m.menu_requested THEN "menu" ELSE "stay"

\* what the main loop does after the navigation: leave on a quit request,
\* leave for the launcher on a menu request, or stay in the loop
MenuOutcome(m) ==
    IF m.quit_requested THEN "quit"
    ELSE IF m.menu_requested THEN "menu"
    ELSE "stay"

MenuFrame(ev) ==
    /\ lpc = "run" /\ pc = "loop"
    /\ UNCHANGED rc
    /\ LoopCondition(ctx, plat)
    /\ chip8_menu_is_open(menu)
    /\ LET pm == platform_poll_menu_events(ctx, plat, ev)
           m1 == IF pm.nav # "NONE"
                 THEN chip8_menu_navigate(menu, pm.nav, g_multi_rom_mode) ELSE menu
           dirty == pm.nav # "NONE" /\ m1.settings_dirty
           ap == IF dirty THEN chip8_menu_apply_settings(m1, settings.cpu_freq_hz)
                 ELSE [menu |-> m1, cpu |-> settings.cpu_freq_hz]
           c1 == IF dirty THEN platform_apply_settings(pm.ctx, pm.plat) ELSE pm.ctx
           m2 == ap.menu
           c2 == IF m2.reset_requested
                 THEN chip8_context_load_program(chip8_context_reset(c1),
                                                 RomData(rom), RomSize(rom)).ctx
                 ELSE c1
           changed == ap.cpu # settings.cpu_freq_hz
       IN /\ changed => gh.adjusts < MaxAdjust
          /\ IF MenuOutcome(m2) \in {"quit", "menu"} \/ ~LoopCondition(c2, pm.plat)
             THEN /\ RunReturn(MenuOutcome(m2) = "menu")
                  /\ gh' = [gh_launch EXCEPT !.quit_seen = m2.quit_requested,
                                             !.menu_seen = MenuOutcome(m2) = "menu"]
             ELSE /\ plat' = pm.plat
                  /\ ctx' = c2
                  /\ menu' = [m2 EXCEPT !.reset_requested = FALSE]
                  /\ settings' = [settings EXCEPT !.cpu_freq_hz = ap.cpu]
                  /\ pc' = "loop"
                  /\ ref' = [ctx |-> c2,
                             rpc |-> IF m2.reset_requested
                                     THEN EntryTarget(c2, rom) ELSE ref.rpc]
                  /\ gh' = [gh EXCEPT !.adjusts = IF changed THEN @ + 1 ELSE @,
                                      !.quit_seen = m2.quit_requested,
                                      !.reset_pending = m2.reset_requested \/ @,
                                      !.wait_released =
                                          IF m2.reset_requested THEN -1 ELSE @]
                  /\ UNCHANGED << lpc, launcher_vars, g_return_to_menu,
                                  g_multi_rom_mode, g_func_table, rom,
                                  pause_key_released, was_beeping, rpc, exit_code >>

\* key wait handling (FX0A) of the main loop
key_wait_handle(c) ==
    IF c.waiting_for_key /\ c.last_key_released >= 0
    THEN [c EXCEPT !.V[c.key_wait_register] = c.last_key_released % 256,
                   !.waiting_for_key = FALSE,
                   !.last_key_released = -1]
    ELSE c

\* a budget computed for 50 frames per second
CyclesPerFrame_Mut(cpu_freq_hz) == cpu_freq_hz \div 50

CyclesPerFrame(cpu_freq_hz) == cpu_freq_hz \div CHIP8_TIMER_FREQ_HZ

\* the entry call returns: the main loop accounts the instructions (the
\* 64-bit counters stay far below their width within MaxFrames frames)
EntryReturn(c, cpu_freq_hz) ==
    [c EXCEPT !.instruction_count =
                  c.instruction_count + (CyclesPerFrame(cpu_freq_hz) - c.cycles_remaining)]

KeyWaitAndEntry ==
    /\ lpc = "run" /\ pc = "keywait"
    /\ UNCHANGED rc
    /\ LET c1 == key_wait_handle(ctx)
           done == ctx.waiting_for_key /\ ~c1.waiting_for_key
           c2 == [c1 EXCEPT !.cycles_remaining = CyclesPerFrame(settings.cpu_freq_hz)]
           pro == EntryPrologue(c2, rom)
       IN IF ~c1.waiting_for_key
          THEN /\ ctx' = pro.ctx
               /\ rpc' = Fn(rom, pro.pc)
               /\ pc' = "exec"
               /\ ref' = [ref EXCEPT !.ctx = pro.ctx]
               /\ gh' = [gh EXCEPT !.entry_calls = @ + 1,
                                   !.frame_calls = @ + 1,
                                   !.frame_cycles = pro.ctx.cycles_remaining,
                                   !.reset_pending = FALSE,
                                   !.wait_done = done,
                                   !.wait_released = IF done THEN -1 ELSE @]
          ELSE /\ ctx' = c1
               /\ pc' = PhaseAfter("keywait")
               /\ ref' = [ref EXCEPT !.ctx = c1]
               /\ gh' = [gh EXCEPT !.frame_waiting = TRUE]
               /\ UNCHANGED rpc
    /\ UNCHANGED << lpc, launcher_vars, g_return_to_menu, g_multi_rom_mode, g_func_table,
                    rom, menu, settings, plat, pause_key_released, was_beeping,
                    exit_code >>

LogPhase(log, tag) ==
    IF log # << >> /\ log[Len(log)] = tag THEN log ELSE Append(log, tag)

\* the instruction at f, or a return where the routine has no code
InsAt(f) ==
    IF f.rom \in RomIds /\ f.addr \in DOMAIN Program(f.rom)
    THEN Program(f.rom)[f.addr] ELSE Ins("RET", 0, 0, FALSE)

\* the reference machine executes the instruction without a yield check;
\* a routine that returns is called again from its start
RefStep(r, rnd, table) ==
    LET s == ExecOp(r.ctx, r.rpc.addr, InsAt(r.rpc), rnd, table)
    IN [ ctx |-> s.ctx,
         rpc |-> IF s.kind = "next" /\ InsAt(r.rpc).op = "JPV0" THEN s.jump.called
                 ELSE IF s.kind = "next" THEN Fn(r.rpc.rom, s.next)
                 ELSE Fn(rom, CHIP8_PROGRAM_START) ]

\* one emitted instruction of the running routine, with its yield check
ExecInstr(rnd) ==
    /\ lpc = "run" /\ pc = "exec"
    /\ UNCHANGED rc
    /\ LET ins == InsAt(rpc)
           s == ExecOp(ctx, rpc.addr, ins, rnd, g_func_table)
           y == IF ins.yield THEN CHIP8_YIELD(s.ctx, s.next)
                ELSE [ctx |-> s.ctx, returned |-> FALSE]
           g1 == [gh EXCEPT !.switched = FALSE,
                            !.flog = LogPhase(@, "exec"),
                            !.frame_exec = @ + 1,
                            !.all_checked = @ /\ ins.yield,
                            !.exec_waiting =
                                @ \/ (ctx.waiting_for_key /\ s.ctx.V # ctx.V),
                            !.last_jump =
                                IF ins.op = "JPV0"
                                THEN JumpLog(TRUE, s.jump, ins.nn, ctx.V[0])
                                ELSE @]
       IN /\ ref' = RefStep(ref, rnd, g_func_table)
          /\ CASE s.kind = "panic" ->
                    /\ pc' = "panic"
                    /\ lpc' = "exited"
                    /\ exit_code' = 1
                    /\ ctx' = s.ctx
                    /\ gh' = g1
                    /\ UNCHANGED rpc
               [] s.kind = "return" ->
                    /\ pc' = PhaseAfter("exec")
                    /\ ctx' = EntryReturn(s.ctx, settings.cpu_freq_hz)
                    /\ gh' = g1
                    /\ UNCHANGED << lpc, exit_code, rpc >>
               [] s.kind = "next" /\ y.returned ->
                    /\ pc' = PhaseAfter("exec")
                    /\ ctx' = EntryReturn(y.ctx, settings.cpu_freq_hz)
                    /\ gh' = [g1 EXCEPT !.frame_yield = TRUE]
                    /\ UNCHANGED << lpc, exit_code, rpc >>
               [] OTHER ->
                    /\ pc' = "exec"
                    /\ ctx' = y.ctx
                    /\ rpc' = IF ins.op = "JPV0" THEN s.jump.called
                              ELSE Fn(rpc.rom, s.next)
                    /\ gh' = g1
                    /\ UNCHANGED << lpc, exit_code >>
    /\ UNCHANGED << launcher_vars, g_return_to_menu, g_multi_rom_mode, g_func_table,
                    rom, menu, settings, plat, pause_key_released, was_beeping >>

\* the 60 Hz timer tick; due: a timer period has passed since the last one
TimerTick(due) ==
    /\ lpc = "run" /\ pc = "tick"
    /\ UNCHANGED rc
    /\ pc' = PhaseAfter("tick")
    /\ IF due
       THEN /\ ctx' = [chip8_tick_timers(ctx) EXCEPT !.frame_count = @ + 1]
            /\ was_beeping' = chip8_sound_active(chip8_tick_timers(ctx))
            /\ gh' = [gh EXCEPT !.flog = LogPhase(@, "tick")]
       ELSE UNCHANGED << ctx, was_beeping, gh >>
    /\ ref' = [ref EXCEPT !.ctx = ctx']
    /\ UNCHANGED << lpc, launcher_vars, g_return_to_menu, g_multi_rom_mode, g_func_table,
                    rom, menu, settings, plat, pause_key_released, rpc, exit_code >>

\* render, clear display_dirty, pace the frame; the while condition is
\* evaluated next, and where it fails chip8_run returns
Render ==
    /\ lpc = "run" /\ pc = "render"
    /\ UNCHANGED rc
    /\ LET c1 == [ctx EXCEPT !.display_dirty = FALSE]
       IN IF LoopCondition(c1, plat)
          THEN /\ ctx' = c1
               /\ gh' = [gh EXCEPT !.flog = LogPhase(@, "render")]
               /\ pc' = PhaseAfter("render")
               /\ ref' = [ref EXCEPT !.ctx = c1]
               /\ UNCHANGED << lpc, launcher_vars, g_return_to_menu, g_multi_rom_mode,
                               g_func_table, rom, menu, settings, plat,
                               pause_key_released, was_beeping, rpc, exit_code >>
          ELSE /\ RunReturn(g_return_to_menu)
               /\ gh' = gh_launch

Next ==
    \/ \E ev \in LauncherEvents, click \in -1..(RomCount - 1), ok \in BOOLEAN :
           LauncherFrame(ev, click, ok)
    \/ \E inp \in PollInputs, ev \in GameEvents : GamePoll(inp, ev)
    \/ \E ev \in MenuEvents : MenuFrame(ev)
    \/ KeyWaitAndEntry
    \/ \E rnd \in RandBytes : ExecInstr(rnd)
    \/ \E due \in BOOLEAN : TimerTick(due)
    \/ Render

Spec == Init /\ [][Next]_vars

(***************************************************************************)
(* A headless test run: the program's main registers the headless         *)
(* platform and the ROM's routines and calls chip8_run with max_frames in  *)
(* the configuration.  The state is the one at the top of the main loop.   *)
(***************************************************************************)
HeadlessInit ==
    \E r \in RomIds, n \in 1..MaxFrames, std \in BOOLEAN :
        LET cpu == IF std THEN DefaultCpuHz ELSE LaunchCpuFreq(r)
            load == chip8_context_load_program(chip8_context_create,
                                               RomData(r), RomSize(r))
        IN /\ lpc = "run"
           /\ g_selected_rom = 0
           /\ g_launch_selected = FALSE
           /\ g_return_to_menu = FALSE
           /\ g_should_quit = FALSE
           /\ g_multi_rom_mode = FALSE
           /\ g_func_table = register_functions({}, r)
           /\ rom = r
           /\ ctx = headless_apply_settings(load.ctx)
           /\ menu = chip8_menu_init(cpu)
           /\ settings = [cpu_freq_hz |-> cpu]
           /\ plat = chip8_headless_set_max_frames(headless_init, n)
           /\ pause_key_released = TRUE
           /\ was_beeping = FALSE
           /\ pc = "loop"
           /\ rpc = Fn(0, 0)
           /\ exit_code = -1
           /\ ref = [ctx |-> ctx, rpc |-> Fn(r, CHIP8_PROGRAM_START)]
           /\ gh = gh_launch
           /\ rc = NoRecompile

\* the headless platform reads no input
NoInput == Inp(FALSE, -1, {}, FALSE, FALSE)

HeadlessNext ==
    \/ GamePoll(NoInput, "NONE")
    \/ KeyWaitAndEntry
    \/ \E rnd \in RandBytes : ExecInstr(rnd)
    \/ TimerTick(HeadlessTimerDue)
    \/ Render

(***************************************************************************)
(* The launcher with a keyboard whose ESC key is used during gameplay: the *)
(* key-down is in the event queue when sdl_poll_events drains it.          *)
(***************************************************************************)
EscNext ==
    \/ Next
    \/ \E ev \in GameEvents : GamePoll(EscInput, ev)

EscSpec == Init /\ [][EscNext]_vars

\* the single thread of the run is never blocked: headless_sleep_us returns
\* at once
HeadlessSpec == HeadlessInit /\ [][HeadlessNext]_vars /\ WF_vars(HeadlessNext)

(***************************************************************************)
(* The helpers of instructions.h and instructions.c, applied to a machine  *)
(* inside a run.  The launcher and main-loop variables stay as they are    *)
(* while the emitted code executes one instruction.                        *)
(***************************************************************************)
HelperIdle ==
    /\ lpc = "run"
    /\ g_selected_rom = 0
    /\ g_launch_selected = FALSE
    /\ g_return_to_menu = FALSE
    /\ g_should_quit = FALSE
    /\ g_multi_rom_mode = FALSE
    /\ g_func_table = {}
    /\ rom = 0
    /\ menu = chip8_menu_init(DefaultCpuHz)
    /\ settings = [cpu_freq_hz |-> DefaultCpuHz]
    /\ plat = sdl_init
    /\ pause_key_released = TRUE
    /\ was_beeping = FALSE
    /\ rpc = Fn(0, 0)
    /\ exit_code = -1
    /\ rc = NoRecompile

HelperFrame ==
    UNCHANGED << lpc, launcher_vars, g_return_to_menu, g_multi_rom_mode, g_func_table,
                 rom, menu, settings, plat, pause_key_released, was_beeping, rpc,
                 exit_code, rc >>

\* operand values: the ends of the byte range and both sides of the top bit
AluBytes == {0, 1, 127, 128, 255}

\* VF and one ordinary register, as Vx and as Vy
AluRegs == {3, 15}

AluInit ==
    \E a \in AluBytes, b \in AluBytes :
        /\ HelperIdle
        /\ ctx = [chip8_context_create EXCEPT !.V[15] = a, !.V[3] = b]
        /\ ref = [ctx |-> ctx, rpc |-> Fn(0, 0)]
        /\ pc = "alu"
        /\ gh = [kind |-> "none", x |-> 0, y |-> 0, vx |-> 0, vy |-> 0]

\* one ALU instruction 8XYn of the emitted code
AluStep(kind, x, y) ==
    /\ pc = "alu"
    /\ ctx' = AluApply(ctx, kind, x, y)
    /\ pc' = "done"
    /\ gh' = [kind |-> kind, x |-> x, y |-> y, vx |-> ctx.V[x], vy |-> ctx.V[y]]
    /\ UNCHANGED ref
    /\ HelperFrame

AluNext == \E kind \in AluKinds, x \in AluRegs, y \in AluRegs : AluStep(kind, x, y)

AluSpec == AluInit /\ [][AluNext]_vars

(***************************************************************************)
(* chip8_draw_sprite.  The machine draws sprites of a ROM that keeps its   *)
(* sprite data at SpriteAddr and its coordinates in V0, V1 and VF.  ref    *)
(* is the twin machine that makes each draw from the same state, with the  *)
(* coordinate registers already reduced to the screen.                     *)
(***************************************************************************)
MaxDraws == 2

SpriteAddr == 768

\* sprite data: a full row over a hollow one and a half row; single pixels
\* at both ends of the byte
SpriteData == { <<255, 129, 240>>, <<128, 0, 1>> }

SpriteHeights == {1, 3}

\* coordinate values: inside the screen, the same place one screen further,
\* and close to the right and the bottom edge
DrawXs == {1, 65, 62}
DrawYs == {1, 33, 30}

\* the display before the first draw: blank, or some pixels on
Displays == { {}, {65, 66, 2046, 2047} }

Reduced(c, vx, vy) ==
    LET c1 == [c EXCEPT !.V[vx] = c.V[vx] % CHIP8_DISPLAY_WIDTH]
    IN IF vy = vx THEN c1
       ELSE [c1 EXCEPT !.V[vy] = c.V[vy] % CHIP8_DISPLAY_HEIGHT]

DrawInit ==
    \E sp \in SpriteData, vx \in DrawXs, vy \in DrawYs, d \in Displays :
        /\ HelperIdle
        /\ ctx = [chip8_context_create EXCEPT
                     !.V[0] = vx, !.V[1] = vy, !.V[15] = 33,
                     !.I = SpriteAddr,
                     !.memory = [a \in (DOMAIN @) \cup
                                       (SpriteAddr..(SpriteAddr + Len(sp) - 1)) |->
                                    IF a >= SpriteAddr THEN sp[a - SpriteAddr + 1]
                                    ELSE @[a]],
                     !.display = d]
        /\ ref = [ctx |-> ctx, rpc |-> Fn(0, 0)]
        /\ pc = "draw"
        /\ gh = [hist |-> << >>]

\* one DRW Vx, Vy, n of the emitted code
DrawStep(vx, vy, height) ==
    /\ pc = "draw"
    /\ Len(gh.hist) < MaxDraws
    /\ ctx' = chip8_draw_sprite(ctx, vx, vy, height)
    /\ ref' = [ref EXCEPT !.ctx = chip8_draw_sprite(Reduced(ctx, vx, vy), vx, vy, height)]
    /\ gh' = [gh EXCEPT !.hist = Append(@, [vx |-> vx, vy |-> vy, height |-> height,
                                           pre |-> ctx, post |-> ctx'])]
    /\ UNCHANGED pc
    /\ HelperFrame

DrawNext ==
    \E vx \in {0, 15}, vy \in {1, 15}, height \in SpriteHeights : DrawStep(vx, vy, height)

DrawSpec == DrawInit /\ [][DrawNext]_vars

(***************************************************************************)
(* chip8_store_registers and chip8_load_registers.  The emitted code       *)
(* stores registers at I, may then load other values into them (LD Vx,nn)  *)
(* and set I again (LD I,addr), and loads the registers from I.            *)
(***************************************************************************)
SaveAddr == 896

\* register and memory contents before the store
SaveBytes == {0, 7}

\* the value the code puts in a register between store and load
ClobberByte == 5

\* the last register of the store and of the load
SaveLast == {0, 1}

NoAccess == [x |-> 0, inc |-> FALSE, pre |-> NoContext, post |-> NoContext]

RegsInit ==
    \E v0 \in SaveBytes, v1 \in SaveBytes,
       mem \in [SaveAddr..(SaveAddr + 3) -> SaveBytes] :
        /\ HelperIdle
        /\ ctx = [chip8_context_create EXCEPT
                     !.V[0] = v0, !.V[1] = v1, !.I = SaveAddr,
                     !.memory = [a \in (DOMAIN @) \cup { b \in DOMAIN mem : mem[b] # 0 } |->
                                    IF a \in DOMAIN mem THEN mem[a] ELSE @[a]]]
        /\ ref = [ctx |-> ctx, rpc |-> Fn(0, 0)]
        /\ pc = "store"
        /\ gh = [st |-> NoAccess, ld |-> NoAccess, clobbered |-> FALSE, restored |-> FALSE]

\* LD [I], Vx
StoreStep(x, inc) ==
    /\ pc = "store"
    /\ ctx' = chip8_store_registers(ctx, x, inc)
    /\ pc' = "between"
    /\ gh' = [gh EXCEPT !.st = [x |-> x, inc |-> inc, pre |-> ctx, post |-> ctx']]
    /\ UNCHANGED ref
    /\ HelperFrame

\* LD Vr, nn between the store and the load
ClobberStep(r) ==
    /\ pc = "between" /\ ~gh.clobbered
    /\ ctx' = [ctx EXCEPT !.V[r] = ClobberByte]
    /\ gh' = [gh EXCEPT !.clobbered = TRUE]
    /\ UNCHANGED << pc, ref >>
    /\ HelperFrame

\* LD I, addr with the address the store was made at
RestoreI ==
    /\ pc = "between" /\ ~gh.restored
    /\ ctx' = [ctx EXCEPT !.I = gh.st.pre.I]
    /\ gh' = [gh EXCEPT !.restored = TRUE]
    /\ UNCHANGED << pc, ref >>
    /\ HelperFrame

\* LD Vx, [I]
LoadStep(x, inc) ==
    /\ pc = "between"
    /\ ctx' = chip8_load_registers(ctx, x, inc)
    /\ pc' = "loaded"
    /\ gh' = [gh EXCEPT !.ld = [x |-> x, inc |-> inc, pre |-> ctx, post |-> ctx']]
    /\ UNCHANGED ref
    /\ HelperFrame

RegsNext ==
    \/ \E x \in SaveLast, inc \in BOOLEAN : StoreStep(x, inc)
    \/ \E r \in SaveLast : ClobberStep(r)
    \/ RestoreI
    \/ \E x \in SaveLast, inc \in BOOLEAN : LoadStep(x, inc)

RegsSpec == RegsInit /\ [][RegsNext]_vars

(***************************************************************************)
(* The helpers that address memory through I, called with I anywhere in    *)
(* its 16 bits.  An access outside memory[0..4095] is undefined: the call  *)
(* may end the process, or go on with the bytes beyond the array being     *)
(* whatever lies there (kept in the sparse memory above index 4095).       *)
(***************************************************************************)
\* values of I: low, just below the end of memory, its last bytes, and beyond
MemIs == {0, 4081, 4093, 4094, 4095, 4096, 65535}

\* operands x of the register helpers
MemOperands == {0, 1, 2, 15}

\* sprite heights n
MemHeights == {0, 1, 2}

\* V0, which gives the coordinates of the sprite and the value for the BCD
MemV0 == {0, 31, 255}

\* what a byte beyond the array may hold
UbBytes == {0, 255}

InMemory(touched) == touched \subseteq 0..(CHIP8_MEMORY_SIZE - 1)

\* the context with the byte b at the addressed indexes beyond the array
Beyond(c, touched, b) ==
    LET out == { t \in touched : t >= CHIP8_MEMORY_SIZE /\ b # 0 }
    IN [c EXCEPT !.memory = [a \in (DOMAIN c.memory) \cup out |->
                                IF a \in out THEN b ELSE c.memory[a]]]

MemInit ==
    \E i \in MemIs, v0 \in MemV0 :
        /\ HelperIdle
        /\ ctx = [chip8_context_create EXCEPT !.I = i, !.V[0] = v0]
        /\ ref = [ctx |-> ctx, rpc |-> Fn(0, 0)]
        /\ pc = "call"
        /\ gh = [helper |-> "none", touched |-> {}, value |-> 0]

\* a call of a helper that addresses the indexes touched; outcomes are the
\* contexts it can leave when it returns
HelperCall(name, touched, outcomes) ==
    /\ pc = "call"
    /\ \/ /\ ctx' \in outcomes
          /\ pc' = "done"
       \/ /\ ~ InMemory(touched)
          /\ ctx' = NoContext
          /\ pc' = "crashed"
    /\ gh' = [helper |-> name, touched |-> touched, value |-> 0]
    /\ UNCHANGED ref
    /\ HelperFrame

\* a call of a read helper; values are the results it can return
ReadCall(name, touched, values) ==
    /\ pc = "call"
    /\ \/ /\ \E v \in values : gh' = [helper |-> name, touched |-> touched, value |-> v]
          /\ pc' = "done"
       \/ /\ ~ InMemory(touched)
          /\ gh' = [helper |-> name, touched |-> touched, value |-> 0]
          /\ pc' = "crashed"
    /\ UNCHANGED << ctx, ref >>
    /\ HelperFrame

\* the contexts the helper can be seen to run on: ctx itself when every
\* index is inside memory[]
Seen(touched) == { Beyond(ctx, touched, b) : b \in UbBytes }

\* DRW V0, V0, n
MemDraw(n) ==
    HelperCall("draw_sprite", chip8_draw_sprite_indexes(ctx, 0, 0, n),
               { chip8_draw_sprite(c, 0, 0, n) :
                   c \in Seen(chip8_draw_sprite_indexes(ctx, 0, 0, n)) })

\* LD B, V0
MemStoreBcd ==
    HelperCall("store_bcd", chip8_store_bcd_indexes(ctx),
               { chip8_store_bcd(c, 0) : c \in Seen(chip8_store_bcd_indexes(ctx)) })

\* LD [I], Vx
MemStoreRegs(x, inc) ==
    HelperCall("store_registers", chip8_registers_indexes(ctx, x),
               { chip8_store_registers(c, x, inc) :
                   c \in Seen(chip8_registers_indexes(ctx, x)) })

\* LD Vx, [I]
MemLoadRegs(x, inc) ==
    HelperCall("load_registers", chip8_registers_indexes(ctx, x),
               { chip8_load_registers(c, x, inc) :
                   c \in Seen(chip8_registers_indexes(ctx, x)) })

\* chip8_read_byte(ctx, ctx->I)
MemReadByte ==
    ReadCall("read_byte", chip8_read_byte_indexes(ctx.I),
             { chip8_read_byte(c, ctx.I) : c \in Seen(chip8_read_byte_indexes(ctx.I)) })

\* chip8_read_word(ctx, ctx->I)
MemReadWord ==
    ReadCall("read_word", chip8_read_word_indexes(ctx.I),
             { chip8_read_word(c, ctx.I) : c \in Seen(chip8_read_word_indexes(ctx.I)) })

MemNext ==
    \/ \E n \in MemHeights : MemDraw(n)
    \/ MemStoreBcd
    \/ \E x \in MemOperands, inc \in BOOLEAN : MemStoreRegs(x, inc)
    \/ \E x \in MemOperands, inc \in BOOLEAN : MemLoadRegs(x, inc)
    \/ MemReadByte
    \/ MemReadWord

MemSpec == MemInit /\ [][MemNext]_vars

(***************************************************************************)
(* The recompiler's main: load and validate the ROM, decode it, analyze    *)
(* it.  The emitted program does not exist yet; its variables stay in      *)
(* their initial state.                                                    *)
(***************************************************************************)
NotStarted ==
    /\ lpc = "select"
    /\ g_selected_rom = 0
    /\ g_launch_selected = FALSE
    /\ g_return_to_menu = FALSE
    /\ g_should_quit = FALSE
    /\ g_multi_rom_mode = FALSE
    /\ g_func_table = {}
    /\ rom = 0
    /\ ctx = NoContext
    /\ menu = chip8_menu_init(DefaultCpuHz)
    /\ settings = [cpu_freq_hz |-> DefaultCpuHz]
    /\ plat = sdl_init
    /\ pause_key_released = TRUE
    /\ was_beeping = FALSE
    /\ pc = "none"
    /\ rpc = Fn(0, 0)
    /\ exit_code = -1
    /\ ref = [ctx |-> NoContext, rpc |-> Fn(0, 0)]
    /\ gh = gh_launch

RecompileFrame ==
    UNCHANGED << lpc, launcher_vars, g_return_to_menu, g_multi_rom_mode, g_func_table,
                 rom, ctx, menu, settings, plat, pause_key_released, was_beeping, pc,
                 rpc, exit_code, ref, gh >>

\* the recompiler started on a ROM file with the bytes data
RecompileStart(data) ==
    [stage |-> "start", data |-> data, instructions |-> << >>, analysis |-> << >>,
     status |-> -1]

\* main: load_rom and validate_rom; a ROM that is refused ends the process
\* with status 1
LoadValidate ==
    /\ rc.stage = "start"
    /\ rc' = IF validate_rom(rc.data)
             THEN [rc EXCEPT !.stage = "valid"]
             ELSE [rc EXCEPT !.stage = "failed", !.status = 1]
    /\ RecompileFrame

\* main: decode_rom(rom->bytes(), rom->size()) with the default base address
DecodeStep ==
    /\ rc.stage = "valid"
    /\ rc' = [rc EXCEPT !.stage = "decoded",
                        !.instructions = decode_rom(rc.data, Len(rc.data),
                                                    CHIP8_PROGRAM_START)]
    /\ RecompileFrame

\* main: analyze(instructions) with the default entry point
AnalyzeStep ==
    /\ rc.stage = "decoded"
    /\ rc' = [rc EXCEPT !.stage = "analyzed",
                        !.analysis = analyze(rc.instructions, CHIP8_PROGRAM_START)]
    /\ RecompileFrame

\* the longest of the ROMs made of DecodeBytes
MaxRomLen == 5

\* bytes of the ROMs longer than one instruction: 12 EE is JP 0x2EE, EE 12 is
\* unknown, 00 EE is RET
DecodeBytes == {0, 18, 238}

RECURSIVE SeqsOf(_, _)
SeqsOf(S, len) ==
    IF len = 0 THEN { << >> }
    ELSE { Append(s, b) : s \in SeqsOf(S, len - 1), b \in S }

\* every ROM of one instruction, the short ROMs over DecodeBytes (the empty
\* and the one-byte ROM among them), and zero-filled ROMs around the
\* largest size
DecodeRoms ==
    [1..2 -> 0..255]
    \cup UNION { SeqsOf(DecodeBytes, len) : len \in 0..MaxRomLen }
    \cup { [i \in 1..len |-> 0] : len \in (MAX_ROM_SIZE - 1)..(MAX_ROM_SIZE + 1) }

DecodeInit ==
    \E data \in DecodeRoms :
        /\ NotStarted
        /\ rc = RecompileStart(data)

DecodeNext == LoadValidate \/ DecodeStep

DecodeSpec == DecodeInit /\ [][DecodeNext]_vars

(***************************************************************************)
(* The recompiler on short programs with every kind of control flow.       *)
(***************************************************************************)
MaxInstrs == 3

\* CLS; RET; JP 0x200; JP 0x204; JP 0x203 (odd target); CALL 0x204;
\* SE V0,0; LD V0,1; JP V0,0x200
AnalyzeOpcodes == {224, 238, 4608, 4612, 4611, 8708, 12288, 24577, 45568}

RECURSIVE RomBytes(_)
RomBytes(opcodes) ==
    IF opcodes = << >> THEN << >>
    ELSE << Head(opcodes) \div 256, Head(opcodes) % 256 >> \o RomBytes(Tail(opcodes))

AnalyzeInit ==
    \E len \in 1..MaxInstrs :
        \E opcodes \in SeqsOf(AnalyzeOpcodes, len) :
            /\ NotStarted
            /\ rc = RecompileStart(RomBytes(opcodes))

AnalyzeNext == LoadValidate \/ DecodeStep \/ AnalyzeStep

AnalyzeSpec == AnalyzeInit /\ [][AnalyzeNext]_vars

(***************************************************************************)
(* The ROM identifier: extract_rom_name on the file name of the ROM.  A    *)
(* string is a sequence of one-character strings.                         *)
(***************************************************************************)
UpperChars == << "A", "B", "C", "D", "E", "F", "G", "H", "I", "J", "K", "L", "M",
                 "N", "O", "P", "Q", "R", "S", "T", "U", "V", "W", "X", "Y", "Z" >>

LowerChars == << "a", "b", "c", "d", "e", "f", "g", "h", "i", "j", "k", "l", "m",
                 "n", "o", "p", "q", "r", "s", "t", "u", "v", "w", "x", "y", "z" >>

DigitChars == { "0", "1", "2", "3", "4", "5", "6", "7", "8", "9" }

\* <cctype> in the "C" locale
isspace(c) == c \in { " ", "\t", "\n", "\r", "\f" }

isdigit(c) == c \in DigitChars

isalnum(c) ==
    \/ isdigit(c)
    \/ \E i \in 1..26 : c = UpperChars[i] \/ c = LowerChars[i]

tolower(c) ==
    IF \E i \in 1..26 : c = UpperChars[i]
    THEN LowerChars[CHOOSE i \in 1..26 : c = UpperChars[i]]
    ELSE c

\* std::string::find of one character: the first position, 0 for npos
Find(name, c) ==
    IF \E i \in 1..Len(name) : name[i] = c
    THEN CHOOSE i \in 1..Len(name) : name[i] = c /\ \A j \in 1..(i - 1) : name[j] # c
    ELSE 0

\* name.substr(0, pos) for a found position, name unchanged for npos
CutAt(name, c) ==
    IF Find(name, c) = 0 THEN name ELSE SubSeq(name, 1, Find(name, c) - 1)

\* std::filesystem::path::stem of a file name: the name without its last
\* extension; "." and ".." and a name whose only period is the first
\* character have none
stem(filename) ==
    LET dots == { i \in 1..Len(filename) : filename[i] = "." }
        last == CHOOSE i \in dots : \A j \in dots : j <= i
    IN IF dots = {} \/ filename = << "." >> \/ filename = << ".", "." >> THEN filename
       ELSE IF last = 1 THEN filename
       ELSE SubSeq(filename, 1, last - 1)

\* the two erase calls that trim whitespace
TrimSpace(name) ==
    LET keep == { i \in 1..Len(name) : ~ isspace(name[i]) }
    IN IF keep = {} THEN << >>
       ELSE SubSeq(name, CHOOSE i \in keep : \A j \in keep : i <= j,
                         CHOOSE i \in keep : \A j \in keep : j <= i)

\* std::unique with the predicate a == '_' && b == '_'
RECURSIVE UniqueUnderscores(_)
UniqueUnderscores(name) ==
    IF Len(name) < 2 THEN name
    ELSE IF name[1] = "_" /\ name[2] = "_" THEN UniqueUnderscores(Tail(name))
    ELSE << name[1] >> \o UniqueUnderscores(Tail(name))

\* one leading and one trailing underscore removed
StripUnderscores(name) ==
    LET n1 == IF name # << >> /\ name[1] = "_" THEN Tail(name) ELSE name
    IN IF n1 # << >> /\ n1[Len(n1)] = "_" THEN SubSeq(n1, 1, Len(n1) - 1) ELSE n1

\* extract_rom_name up to the fallback "rom"
CleanName(filename) ==
    LET n1 == CutAt(CutAt(stem(filename), "["), "(")
        n2 == TrimSpace(n1)
        n3 == [ i \in 1..Len(n2) |-> tolower(n2[i]) ]
        n4 == [ i \in 1..Len(n3) |-> IF isalnum(n3[i]) THEN n3[i] ELSE "_" ]
        n5 == StripUnderscores(UniqueUnderscores(n4))
    IN IF n5 = << >> THEN << "r", "o", "m" >> ELSE n5

\* an extract_rom_name without the prefix for a leading digit
extract_rom_name_Mut(filename) == CleanName(filename)

extract_rom_name(filename) ==
    LET name == CleanName(filename)
    IN IF name # << >> /\ isdigit(name[1])
       THEN << "r", "o", "m", "_" >> \o name
       ELSE name

\* the longest file name
MaxNameLen == 4

\* the characters of the file names: letters of both cases, a digit, white
\* space, the two metadata openers, the extension period and other marks
NameChars == { "A", "b", "1", " ", "[", "(", "-", "_", "." }

\* load_rom called with a path whose file name is filename
NameInit ==
    \E len \in 0..MaxNameLen :
        \E filename \in SeqsOf(NameChars, len) :
            /\ NotStarted
            /\ rc = [stage |-> "path", filename |-> filename, name |-> << >>]

\* load_rom: rom.name = extract_rom_name(path)
NameStep ==
    /\ rc.stage = "path"
    /\ rc' = [rc EXCEPT !.stage = "named", !.name = extract_rom_name(rc.filename)]
    /\ RecompileFrame

NameNext == NameStep

NameSpec == NameInit /\ [][NameNext]_vars

(***************************************************************************)
(* Properties                                                              *)
(***************************************************************************)
Running == lpc = "run" /\ pc \in {"loop", "keywait", "exec", "tick", "render"}

\* what a CHIP-8 program can observe of the machine
Obs(c) ==
    [ V |-> c.V, I |-> c.I, memory |-> c.memory, display |-> c.display,
      delay_timer |-> c.delay_timer, sound_timer |-> c.sound_timer ]

\* the instruction the real machine executes next
RealNext == IF pc = "exec" THEN rpc ELSE EntryTarget(ctx, rom)

\* C1: yield idempotence.  The machine that yields and is re-entered through
\* the resume prologue stays in step with the reference machine that runs
\* the same instruction sequence without yielding: after every step both
\* have the same registers, I, memory, display and timers and both are
\* about to execute the same instruction, so that no instruction is
\* executed twice or skipped across a yield.
C1_YieldIdempotence ==
    Running => /\ Obs(ctx) = Obs(ref.ctx)
               /\ ref.rpc = RealNext

\* the routine was re-entered after a yield and has executed on from the
\* resume label
C1_Witness ==
    /\ lpc = "run" /\ pc = "exec"
    /\ gh.entry_calls >= 2
    /\ gh.frame_exec >= 1
    /\ rpc.addr # CHIP8_PROGRAM_START
    /\ ref.rpc = rpc

FirstEntry == lpc = "run" /\ pc = "exec" /\ gh.entry_calls = 1 /\ gh.frame_exec = 0

\* the memory image of a freshly loaded ROM r at address a
LoadedByte(r, a) ==
    IF a >= CHIP8_FONT_START /\ a < CHIP8_FONT_START + Len(CHIP8_FONT)
    THEN CHIP8_FONT[a - CHIP8_FONT_START + 1]
    ELSE IF a >= CHIP8_PROGRAM_START /\ (a - CHIP8_PROGRAM_START) \in DOMAIN RomData(r)
    THEN RomData(r)[a - CHIP8_PROGRAM_START]
    ELSE 0

\* C2: switching ROMs.  When the entry routine of a launched ROM is first
\* called, the dispatch table holds exactly the functions registered by that
\* ROM's hook (it was cleared, then registered), the machine state is reset
\* (registers, I, stack, display, timers and flags zero) and memory holds
\* the ROM's bytes from 0x200 with the font at 0x50 and zero elsewhere; this
\* holds for every launch, whatever was launched before.
C2_RomSwitchOrder ==
    FirstEntry =>
        /\ g_func_table = {[addr |-> a, fn |-> Fn(rom, a)] : a \in CallTargets(rom)}
        /\ \A r \in Regs : ctx.V[r] = 0
        /\ ctx.I = 0 /\ ctx.SP = 0
        /\ \A i \in 0..15 : ctx.stack[i] = 0
        /\ ctx.display = {}
        /\ ctx.delay_timer = 0 /\ ctx.sound_timer = 0
        /\ ~ctx.waiting_for_key /\ ~ctx.should_yield
        /\ \A a \in 0..(CHIP8_MEMORY_SIZE - 1) : MemRead(ctx.memory, a) = LoadedByte(rom, a)

\* the first entry call of ROM 2, launched after another ROM has run
C2_Witness == FirstEntry /\ gh.switched /\ rom = 2

\* C3: the dispatch table reflects exactly one ROM.  While an entry routine
\* executes, every entry of the table was registered by the hook of the ROM
\* that is running; none of an earlier ROM remains.
C3_TableOneRom ==
    (lpc = "run" /\ pc = "exec") =>
        \A e \in g_func_table : e.fn.rom = rom /\ e.addr \in CallTargets(rom)

\* ROM 1 executes in a second launch with only its own entry registered
C3_Witness ==
    /\ lpc = "run" /\ pc = "exec"
    /\ gh.switched /\ rom = 1
    /\ g_func_table # {}
    /\ chip8_lookup_function(g_func_table, 3842) = NULL

\* C4: wait-key completes on a key-release edge only.  Within a frame a
\* waiting machine stops waiting only in the main loop's key handling, only
\* when a key-up was polled while it waited (a press or a held key does not
\* count), and then V[reg] holds the released key and last_key_released is
\* back at -1.
C4_KeyReleaseEdge ==
    [][ (/\ lpc = "run" /\ pc \in {"keywait", "exec", "tick", "render"}
         /\ lpc' = "run"
         /\ ctx.waiting_for_key /\ ~ctx'.waiting_for_key)
        => (/\ pc = "keywait"
            /\ gh.wait_released >= 0
            /\ ctx'.V[ctx.key_wait_register] = gh.wait_released
            /\ ctx'.last_key_released = -1) ]_vars

\* key handling has just completed a wait with key 10 released
C4_Witness ==
    /\ lpc = "run" /\ pc = "exec"
    /\ gh.wait_done /\ gh.frame_exec = 0
    /\ ~ctx.waiting_for_key
    /\ ctx.V[ctx.key_wait_register] = 10
    /\ ctx.last_key_released = -1

\* C5: while the machine waits for a key no further instruction executes.
\* No instruction executed while waiting_for_key was set has changed a
\* register, and the entry routine is not called in a frame in which the
\* machine still waits after key handling.
C5_NoExecWhileWaiting ==
    /\ ~gh.exec_waiting
    /\ (lpc = "run" /\ pc = "exec") => ~gh.frame_waiting

Rank(tag) ==
    CASE tag = "poll" -> 0 [] tag = "exec" -> 1 [] tag = "tick" -> 2 [] tag = "render" -> 3

\* C6: the order within a frame.  What a frame with the menu closed does is
\* in the order poll, instructions, timer tick, render: every instruction of
\* the frame executes before the timers tick, the timers tick before the
\* render, and input is polled once, at the start.
C6_FrameOrder ==
    Running =>
        /\ gh.flog # << >> => gh.flog[1] = "poll"
        /\ \A i, j \in DOMAIN gh.flog : i < j => Rank(gh.flog[i]) < Rank(gh.flog[j])

\* a frame that ran instructions, ticked the timers and rendered
C6_Witness == Running /\ gh.flog = <<"poll", "exec", "tick", "render">>

Max(a, b) == IF a > b THEN a ELSE b

\* the entry call of the frame has returned
EntryReturned == lpc = "run" /\ pc \in {"tick", "render"} /\ gh.frame_calls >= 1

\* the frame ran a loop with a yield check after every instruction
CheckedLoop == EntryReturned /\ gh.all_checked /\ gh.frame_yield

\* the entry routine is called once in a frame that does not wait, with a
\* budget of cpu_hz / 60
OncePerFrame ==
    /\ (lpc = "run" /\ pc \in {"tick", "render"}) =>
           gh.frame_calls = (IF gh.frame_waiting THEN 0 ELSE 1)
    /\ (lpc = "run" /\ pc = "exec") =>
           /\ gh.frame_calls = 1
           /\ gh.frame_cycles = settings.cpu_freq_hz \div CHIP8_TIMER_FREQ_HZ

C8_YieldCheck ==
    [][ (/\ lpc = "run" /\ pc = "exec"
         /\ InsAt(rpc).yield
         /\ ExecOp(ctx, rpc.addr, InsAt(rpc), 0, g_func_table).kind = "next")
        => LET next == ExecOp(ctx, rpc.addr, InsAt(rpc), 0, g_func_table).next
               d == ctx.cycles_remaining - 1
           IN /\ ctx'.cycles_remaining = d
              /\ IF d <= 0
                 THEN /\ ctx'.resume_pc = next
                      /\ ctx'.should_yield
                      /\ pc' # "exec"
                 ELSE /\ ctx'.resume_pc = ctx.resume_pc
                      /\ ctx'.should_yield = ctx.should_yield
                      /\ pc' = "exec"
                      /\ rpc' = Fn(rpc.rom, next) ]_vars

\* a call that went on past several yield checks and then yielded with the
\* budget at zero
C8_Witness ==
    /\ lpc = "run" /\ pc = "tick"
    /\ gh.frame_yield /\ gh.frame_exec >= 3
    /\ ctx.should_yield /\ ctx.cycles_remaining = 0
    /\ ctx.resume_pc \in ResumeLabels(rom)

\* C9: cancellation.  Once the pause menu has set the quit flag the main
\* loop has left its loop in that same pass, without a further call of the
\* entry routine, and chip8_run has returned 0 to a launcher that exits.
C9_QuitObserved ==
    gh.quit_seen =>
        /\ lpc = "exited" /\ pc = "none" /\ exit_code = 0
        /\ ctx = NoContext /\ ~g_return_to_menu

\* the process has exited after Quit was confirmed
C9_Witness == gh.quit_seen /\ lpc = "exited" /\ exit_code = 0

\* C10: the computed jump.  The target of every computed jump made is
\* base + V[0]; if the dispatch table has a function at the target the jump
\* called it, and if not (as for every target from 4096 on) it called
\* nothing and the process has panicked with the target and exit status 1.
C10_ComputedJump ==
    gh.last_jump.made =>
        LET j == gh.last_jump
        IN /\ j.target = j.base + j.v0
           /\ IF j.target < FUNC_TABLE_SIZE /\ \E e \in g_func_table : e.addr = j.target
              THEN /\ ~j.panic
                   /\ j.called # NULL
                   /\ [addr |-> j.target, fn |-> j.called] \in g_func_table
              ELSE /\ j.panic
                   /\ j.called = NULL
                   /\ pc = "panic" /\ lpc = "exited" /\ exit_code = 1

\* a computed jump to 4096, past the end of the table, has panicked
C10_Witness ==
    /\ gh.last_jump.made /\ gh.last_jump.panic
    /\ gh.last_jump.target = FUNC_TABLE_SIZE
    /\ pc = "panic"


\* C11: the headless frame limit.  In a run with max_frames N > 0 the
\* platform has counted every frame begun, should_quit answers true exactly
\* from the N-th poll on, the loop is never at its top with N frames polled,
\* chip8_run returns (with 0) only at the end of frame N, and every run
\* ends: by that return or by the panic of the program.
HeadlessRunning == lpc = "run" /\ plat.name = "headless"

C11_HeadlessMaxFrames ==
    /\ [](HeadlessRunning =>
            /\ plat.frames_run = gh.frames
            /\ platform_should_quit(plat) <=> (plat.frames_run >= plat.max_frames)
            /\ pc = "loop" => plat.frames_run < plat.max_frames
            /\ platform_should_quit(plat) => ~ctx.running)
    /\ [][ (HeadlessRunning /\ lpc' # "run" /\ pc # "exec")
           => (/\ pc = "render"
               /\ gh.frames = plat.max_frames
               /\ exit_code' = 0) ]_vars
    /\ <>(lpc = "exited")

\* the program that loops forever is at the end of its second and last frame
C11_Witness ==
    /\ HeadlessRunning /\ rom = 3 /\ pc = "render"
    /\ plat.max_frames = 2 /\ gh.frames = 2
    /\ gh.frame_yield
    /\ platform_should_quit(plat)

\* C12: the end of a launched run.  When chip8_run returns to the launcher,
\* the launcher presents its selection again exactly if the run ended with
\* the return-to-menu signal (or it exits with status 1 where its window
\* cannot be initialised again); a run ended otherwise makes the launcher
\* return 0.  An exited launcher stays exited, the signal is clear when the
\* selection is presented again and throughout every run up to the step that
\* ends it.
RunEnds == lpc = "run" /\ lpc' # "run" /\ pc # "exec"

C13_EscOpensPauseMenu ==
    [][(/\ lpc = "run" /\ pc = "loop" /\ ~chip8_menu_is_open(menu)
        /\ lpc' = "run" /\ gh'.esc_seen)
       => (/\ chip8_menu_is_open(menu')
           /\ menu'.screen = "PAUSE"
           /\ pc' = "loop")]_vars

\* the flag of an ALU kind for the operand values vx and vy: carry, not
\* borrow, or the bit shifted out
AluFlag(kind, vx, vy) ==
    CASE kind = "ADD"    -> IF vx + vy > 255 THEN 1 ELSE 0
      [] kind = "SUB"    -> IF vx >= vy THEN 1 ELSE 0
      [] kind = "SUBN"   -> IF vy >= vx THEN 1 ELSE 0
      [] kind = "SHR"    -> vx % 2
      [] kind = "SHR_VY" -> vy % 2
      [] kind = "SHL"    -> vx \div 128
      [] kind = "SHL_VY" -> vy \div 128

\* C14: flag-last ALU.  After an ALU instruction of any kind with x = 0xF,
\* V[0xF] holds the flag computed from the operand values the registers had
\* before the instruction, never the arithmetic result.
C14_FlagLast ==
    (pc = "done" /\ gh.x = 15) => ctx.V[15] = AluFlag(gh.kind, gh.vx, gh.vy)

\* ADD VF,Vy with V[0xF] = 0xFF and V[y] = 0x01 has left V[0xF] = 1
C14_Witness ==
    /\ pc = "done" /\ gh.kind = "ADD" /\ gh.x = 15 /\ gh.y = 3
    /\ gh.vx = 255 /\ gh.vy = 1
    /\ ctx.V[15] = 1

SymDiff(a, b) == (a \ b) \cup (b \ a)

\* the last draw made
LastDraw == gh.hist[Len(gh.hist)]

\* the part of the screen a draw may touch: rows y .. y + height - 1 and
\* columns x .. x + 7 of the reduced origin, cut at the bottom and right edge
ClipBox(h) ==
    LET x == h.pre.V[h.vx] % 64
        y == h.pre.V[h.vy] % 32
    IN { r * 64 + c : r \in { q \in y..(y + h.height - 1) : q < 32 },
                      c \in { q \in x..(x + 7) : q < 64 } }

\* C15: the origin of a draw is (V[vx] mod 64, V[vy] mod 32) and the draw
\* clips.  Every pixel a draw changes lies in the rows and columns of the
\* sprite that are on the screen, none in a row or column past the edge or
\* wrapped to the opposite edge, and the draw leaves the display and VF as
\* the same draw with its coordinates reduced to the screen does.
C15_DrawClips ==
    (pc = "draw" /\ gh.hist # << >>) =>
        /\ SymDiff(LastDraw.pre.display, LastDraw.post.display) \subseteq ClipBox(LastDraw)
        /\ ctx.display \subseteq 0..(64 * 32 - 1)
        /\ ctx.display = ref.ctx.display
        /\ ctx.V[15] = ref.ctx.V[15]

\* a draw with V[x] = 65, V[y] = 33 that changed the display, and one whose
\* sprite reaches below row 31
C15_Witness ==
    /\ pc = "draw" /\ Len(gh.hist) = 2
    /\ gh.hist[1].pre.V[gh.hist[1].vx] = 65 /\ gh.hist[1].pre.V[gh.hist[1].vy] = 33
    /\ gh.hist[1].post.display # gh.hist[1].pre.display
    /\ 65 \in gh.hist[1].post.display
    /\ (gh.hist[2].pre.V[gh.hist[2].vy] % 32) + gh.hist[2].height > 32
    /\ gh.hist[2].post.display # gh.hist[2].pre.display

\* the sprite bits of a draw that fall on the screen
SpritePixels(h) ==
    LET x == h.pre.V[h.vx] % 64
        y == h.pre.V[h.vy] % 32
    IN { (y + cell[1]) * 64 + (x + cell[2]) :
           cell \in { q \in (0..(h.height - 1)) \X (0..7) :
                      /\ y + q[1] < 32 /\ x + q[2] < 64
                      /\ (MemRead(h.pre.memory, h.pre.I + q[1])
                             \div (2 ^ (7 - q[2]))) % 2 = 1 } }

\* two draws with the same registers, height, I, sprite bytes and
\* coordinate values
SameDraw(h1, h2) ==
    /\ h1.vx = h2.vx /\ h1.vy = h2.vy /\ h1.height = h2.height
    /\ h1.pre.I = h2.pre.I
    /\ h1.pre.V[h1.vx] = h2.pre.V[h2.vx]
    /\ h1.pre.V[h1.vy] = h2.pre.V[h2.vy]
    /\ \A r \in 0..(h1.height - 1) :
           MemRead(h1.pre.memory, h1.pre.I + r) = MemRead(h2.pre.memory, h2.pre.I + r)

\* C16: a draw XORs the sprite bits into the display and sets VF to 1 when
\* it clears a pixel that was on, else to 0; a second identical draw brings
\* back the display from before the first one and sets VF to 1 when the
\* first draw turned at least one pixel on.
C16_DrawXor ==
    /\ \A i \in 1..Len(gh.hist) :
           LET h == gh.hist[i]
           IN /\ h.post.display = SymDiff(h.pre.display, SpritePixels(h))
              /\ h.post.V[15] = IF h.pre.display \cap SpritePixels(h) # {} THEN 1 ELSE 0
    /\ \A i \in 1..(Len(gh.hist) - 1) :
           LET h1 == gh.hist[i]
               h2 == gh.hist[i + 1]
           IN SameDraw(h1, h2) =>
                  /\ h2.post.display = h1.pre.display
                  /\ (h1.post.display \ h1.pre.display # {}) => h2.post.V[15] = 1

\* an identical second draw after a first one that turned pixels on
C16_Witness ==
    /\ pc = "draw" /\ Len(gh.hist) = 2
    /\ SameDraw(gh.hist[1], gh.hist[2])
    /\ gh.hist[1].post.display \ gh.hist[1].pre.display # {}
    /\ gh.hist[1].pre.display # {}
    /\ ctx.display = gh.hist[1].pre.display
    /\ ctx.V[15] = 1

\* the store made and the load made
StoreDone == pc \in {"between", "loaded"}
LoadDone == pc = "loaded"

\* the store and the load are made with the same last register and with
\* inc set
IncRoundTrip == LoadDone /\ gh.st.inc /\ gh.ld.inc /\ gh.st.x = gh.ld.x

\* V[0..x] is as it was before the store
RegsBack == \A i \in 0..gh.st.x : ctx.V[i] = gh.st.pre.V[i]

\* C17 as stated: with inc set, a store followed by a load returns V[0..x]
\* to its state before the store only if I was set back to its old value in
\* between.
C17_RestoredOnlyIfIRestored ==
    (IncRoundTrip /\ RegsBack) => gh.ld.pre.I = gh.st.pre.I

\* C17: the store copies V[0..x] to memory[I..I+x] and the load copies
\* memory[I..I+x] to V[0..x], each changing nothing else; with inc set I
\* advances by x+1 after each of them.  A load made at the address of the
\* store returns V[0..x] to its state before the store; a load made at the
\* advanced I reads the x+1 bytes that follow the stored ones.
C17_StoreLoad ==
    /\ StoreDone =>
           LET s == gh.st
           IN /\ \A a \in (DOMAIN s.pre.memory) \cup (DOMAIN s.post.memory)
                               \cup (s.pre.I..(s.pre.I + s.x)) :
                     MemRead(s.post.memory, a) =
                         IF a \in s.pre.I..(s.pre.I + s.x) THEN s.pre.V[a - s.pre.I]
                         ELSE MemRead(s.pre.memory, a)
              /\ s.post.V = s.pre.V
              /\ s.post.I = IF s.inc THEN s.pre.I + s.x + 1 ELSE s.pre.I
    /\ LoadDone =>
           LET l == gh.ld
               s == gh.st
           IN /\ \A i \in Regs :
                     l.post.V[i] = IF i <= l.x THEN MemRead(l.pre.memory, l.pre.I + i)
                                   ELSE l.pre.V[i]
              /\ l.post.memory = l.pre.memory
              /\ l.post.I = IF l.inc THEN l.pre.I + l.x + 1 ELSE l.pre.I
              /\ (l.x = s.x /\ l.pre.I = s.pre.I) => RegsBack
              /\ (l.x = s.x /\ s.inc /\ ~gh.restored) =>
                     \A i \in 0..s.x :
                         ctx.V[i] = MemRead(s.pre.memory, s.pre.I + s.x + 1 + i)

\* V0 and V1 stored with inc, V1 overwritten, I set back, both loaded with
\* inc: the registers are back and I has advanced again
C17_Witness ==
    /\ IncRoundTrip /\ gh.st.x = 1 /\ gh.clobbered /\ gh.restored
    /\ gh.st.pre.V[1] = 7 /\ gh.ld.pre.V[1] = ClobberByte
    /\ RegsBack
    /\ ctx.I = SaveAddr + 2

\* the number of records decoded with the address a
RecordsAt(a) ==
    Cardinality({ k \in DOMAIN rc.instructions : rc.instructions[k].address = a })

\* the addresses asked about: every address from 0 to past the end of the
\* ROM in memory
AskedAddresses == 0..(CHIP8_PROGRAM_START + Len(rc.data) + 3)

\* C18 as stated: for a ROM of a size in [2, 3584] every even address in
\* [0x200, 0x200 + size) has exactly one Instruction record and no other
\* address has one.
C18_DecodeTotalToSize ==
    rc.stage = "decoded" =>
        /\ Len(rc.data) \in 2..3584
        /\ \A k \in DOMAIN rc.instructions : rc.instructions[k].address \in AskedAddresses
        /\ \A a \in AskedAddresses :
               RecordsAt(a) =
                   IF /\ a % 2 = 0
                      /\ a >= 512 /\ a < 512 + Len(rc.data)
                   THEN 1 ELSE 0

\* C18: for a ROM of a size in [2, 3584] every even address a whose two
\* bytes a and a + 1 both lie in [0x200, 0x200 + size) has exactly one
\* Instruction record, decoded from these two bytes, and no other address
\* has one: the odd last byte of a ROM of odd size is not decoded.
C18_DecodeTotal ==
    rc.stage = "decoded" =>
        /\ Len(rc.data) \in 2..3584
        /\ \A k \in DOMAIN rc.instructions : rc.instructions[k].address \in AskedAddresses
        /\ \A a \in AskedAddresses :
               RecordsAt(a) =
                   IF /\ a % 2 = 0
                      /\ a >= 512 /\ a + 1 < 512 + Len(rc.data)
                   THEN 1 ELSE 0
        /\ \A k \in DOMAIN rc.instructions :
               LET r == rc.instructions[k]
               IN r.opcode = rc.data[r.address - 512 + 1] * 256
                                 + rc.data[r.address - 512 + 2]

\* a ROM of five bytes decoded into the records of 0x200 and 0x202
C18_Witness ==
    /\ rc.stage = "decoded" /\ Len(rc.data) = 5
    /\ Len(rc.instructions) = 2
    /\ rc.instructions[1].address = 512 /\ rc.instructions[2].address = 514
    /\ rc.instructions[2].opcode = 238

\* the six conditional-skip kinds
SkipKinds == {"SE_VX_NN", "SNE_VX_NN", "SE_VX_VY", "SNE_VX_VY", "SKP", "SKNP"}

\* the opcodes of the six conditional skips: 3XNN, 4XNN, 5XY0, 9XY0, EX9E
\* and EXA1
SkipOpcode(opcode) ==
    LET op == opcode \div 4096
    IN \/ op \in {3, 4}
       \/ op \in {5, 9} /\ opcode % 16 = 0
       \/ op = 14 /\ opcode % 256 \in {158, 161}

\* C19: flow flag consistency.  Every decoded record has is_terminator
\* exactly when it has is_jump or is_return, and has is_branch exactly when
\* its kind is one of the six conditional skips, which is exactly when its
\* opcode is one of theirs; 5XYn and 9XYn with n # 0 decode to Unknown
\* without is_branch.
C19_FlowFlags ==
    rc.stage = "decoded" =>
        \A k \in DOMAIN rc.instructions :
            LET r == rc.instructions[k]
            IN /\ r.is_terminator <=> (r.is_jump \/ r.is_return)
               /\ r.is_branch <=> r.type \in SkipKinds
               /\ r.is_branch <=> SkipOpcode(r.opcode)
               /\ (r.opcode \div 4096 \in {5, 9} /\ r.n # 0) =>
                      r.type = "UNKNOWN" /\ ~r.is_branch

\* 5AB1 decoded: Unknown, no flow flag
C19_Witness ==
    /\ rc.stage = "decoded" /\ rc.data = <<90, 177>>
    /\ rc.instructions[1].opcode = 23217
    /\ rc.instructions[1].type = "UNKNOWN"
    /\ ~rc.instructions[1].is_branch /\ ~rc.instructions[1].is_terminator

\* the 0-based instruction indexes of the block that starts at a
BlockIndexes(a) ==
    { rc.analysis.blocks[a].instruction_indices[i] :
        i \in 1..Len(rc.analysis.blocks[a].instruction_indices) }

\* where control can go from an instruction: the jump target, the
\* instruction skipped to or fallen into, the routine called
FlowTargets(instr) ==
    CASE instr.type = "JP" -> {instr.nnn}
      [] instr.type \in {"RET", "JP_V0"} -> {}
      [] instr.type = "CALL" -> {instr.nnn, instr.address + 2}
      [] instr.type \in SkipKinds -> {instr.address + 2, instr.address + 4}
      [] OTHER -> {instr.address + 2}

\* the decoded addresses that control reaches from the set S
RECURSIVE FlowClosure(_)
FlowClosure(S) ==
    LET more == { a \in UNION { FlowTargets(rc.instructions[k]) :
                                  k \in { j \in DOMAIN rc.instructions :
                                            rc.instructions[j].address \in S } } :
                    Decoded(rc.instructions, a) }
    IN IF more \subseteq S THEN S ELSE FlowClosure(S \cup more)

\* C20: block partitioning.  In the analysis result no two blocks share an
\* instruction, no block lists an instruction twice, and every decoded
\* instruction address that control reaches from a block start is in exactly
\* one block.
C20_BlockPartition ==
    rc.stage = "analyzed" =>
        LET starts == DOMAIN rc.analysis.blocks
        IN /\ \A a \in starts, b \in starts :
                  a # b => BlockIndexes(a) \cap BlockIndexes(b) = {}
           /\ \A a \in starts :
                  /\ Cardinality(BlockIndexes(a)) =
                         Len(rc.analysis.blocks[a].instruction_indices)
                  /\ AddrToIdx(rc.instructions, a) \in BlockIndexes(a)
           /\ \A r \in FlowClosure(starts) :
                  Cardinality({ a \in starts :
                                  AddrToIdx(rc.instructions, r) \in BlockIndexes(a) }) = 1

\* SE V0,0; LD V0,1; JP 0x200 analyzed into the three blocks of 0x200,
\* 0x202 and 0x204
C20_Witness ==
    /\ rc.stage = "analyzed"
    /\ rc.data = <<48, 0, 96, 1, 18, 0>>
    /\ DOMAIN rc.analysis.blocks = {512, 514, 516}
    /\ rc.analysis.blocks[512].instruction_indices = <<0>>
    /\ rc.analysis.blocks[514].instruction_indices = <<1>>
    /\ rc.analysis.blocks[516].instruction_indices = <<2>>

\* the entries of a sequence, as a set
Entries(s) == { s[i] : i \in 1..Len(s) }

RECURSIVE SuccClosure(_, _)
SuccClosure(blocks, seeds) ==
    LET more == seeds \cup UNION { Entries(blocks[a].successors) :
                                      a \in seeds \cap DOMAIN blocks }
    IN IF more = seeds THEN seeds ELSE SuccClosure(blocks, more)

\* C22: reachability closure.  A block is marked reachable exactly when its
\* address is in the closure of the entry point and the call targets under
\* the successor relation, cycles included.
C22_ReachableClosure ==
    rc.stage = "analyzed" =>
        LET r == rc.analysis
        IN \A b \in DOMAIN r.blocks :
               r.blocks[b].is_reachable
                   <=> b \in SuccClosure(r.blocks, {r.entry_point} \cup r.call_targets)

\* JP 0x200; CALL 0x204; CLS: the entry block is a cycle of its own, the
\* block of the call is never reached and the call target 0x204 is reached
\* as a call target only
C22_Witness ==
    /\ rc.stage = "analyzed"
    /\ rc.data = <<18, 0, 34, 4, 0, 224>>
    /\ 512 \in Entries(rc.analysis.blocks[512].successors)
    /\ rc.analysis.blocks[512].is_reachable
    /\ ~ rc.analysis.blocks[514].is_reachable
    /\ rc.analysis.blocks[516].is_reachable

\* the nnn operands of the decoded CALL instructions
CalledAddresses == { rc.instructions[k].nnn :
                       k \in { j \in DOMAIN rc.instructions :
                                 rc.instructions[j].type = "CALL" } }

\* C23 as stated: every nnn of a decoded CALL is the entry of a Function of
\* the analysis result, and so is the program entry 0x200.
C23_EveryCallTargetFunction ==
    rc.stage = "analyzed" =>
        /\ CalledAddresses \subseteq DOMAIN rc.analysis.functions
        /\ CHIP8_PROGRAM_START \in DOMAIN rc.analysis.functions

\* C23: the Functions of the analysis result are the program entry 0x200 and
\* the nnn operands of the decoded CALLs that are addresses of decoded
\* instructions, each under its own entry address with its entry block first;
\* a call target that is not a decoded address has no Function.
C23_CallTargetFunctions ==
    rc.stage = "analyzed" =>
        LET r == rc.analysis
        IN /\ CHIP8_PROGRAM_START \in DOMAIN r.functions
           /\ DOMAIN r.functions =
                  {CHIP8_PROGRAM_START} \cup
                  { t \in CalledAddresses : Decoded(rc.instructions, t) }
           /\ \A t \in DOMAIN r.functions :
                  /\ r.functions[t].entry_address = t
                  /\ r.functions[t].block_addresses # << >>
                  /\ Head(r.functions[t].block_addresses) = t
                  /\ r.blocks[t].is_function_entry

\* CLS; CALL 0x204; RET: the functions are those of 0x200 and 0x204
C23_Witness ==
    /\ rc.stage = "analyzed"
    /\ rc.data = <<0, 224, 34, 4, 0, 238>>
    /\ DOMAIN rc.analysis.functions = {512, 516}
    /\ rc.analysis.functions[512].block_addresses = <<512>>

\* the last instruction of the block b of the analysis result
LastInstr(b) ==
    LET ix == rc.analysis.blocks[b].instruction_indices
    IN rc.instructions[ix[Len(ix)] + 1]

\* C25 as stated: the last instruction of every block is a terminator or the
\* address after it is a block start.
C25_LastOrBlockStart ==
    rc.stage = "analyzed" =>
        \A b \in DOMAIN rc.analysis.blocks :
            \/ LastInstr(b).is_terminator
            \/ U16(LastInstr(b).address + 2)
                   \in BlockStartsOf(rc.instructions, rc.analysis.entry_point)

\* C25: the last instruction of every block is a terminator, or the last
\* decoded instruction of the ROM, or the address after it starts a block of
\* the analysis result, into which the block falls through unless it ends in
\* a return.
C25_LastOrFallThrough ==
    rc.stage = "analyzed" =>
        \A b \in DOMAIN rc.analysis.blocks :
            LET last == LastInstr(b)
                next == U16(last.address + 2)
            IN /\ rc.analysis.blocks[b].instruction_indices # << >>
               /\ rc.analysis.blocks[b].end_address = next
               /\ \/ last.is_terminator
                  \/ last = rc.instructions[Len(rc.instructions)]
                  \/ /\ next \in BlockStartsOf(rc.instructions, rc.analysis.entry_point)
                     /\ next \in DOMAIN rc.analysis.blocks
                     /\ next \in Entries(rc.analysis.blocks[b].successors)

\* LD V0,1; LD V0,1; JP 0x204: the block of 0x200 ends in the second LD,
\* which is no terminator, and falls through to the block of the jump target
\* 0x204
C25_Witness ==
    /\ rc.stage = "analyzed"
    /\ rc.data = <<96, 1, 96, 1, 18, 4>>
    /\ rc.analysis.blocks[512].instruction_indices = <<0, 1>>
    /\ ~ LastInstr(512).is_terminator
    /\ 516 \in DOMAIN rc.analysis.blocks
    /\ 516 \in Entries(rc.analysis.blocks[512].successors)

\* the characters of a C identifier after the first
IdentChar(c) == isalnum(c) \/ c = "_"

C24_WitnessFallback ==
    /\ rc.stage = "named"
    /\ rc.filename = << " ", "-", "(" >>
    /\ rc.name = << "r", "o", "m" >>

\* C26: reset restarts from the entry.  After a confirmed 'Reset Game', until
\* the entry routine is called again, should_yield is clear, so that the call
\* begins at the entry point 0x200 and takes no resume address of before the
\* reset, and registers, stack, timers and display are cleared.
C26_ResetStartsAtEntry ==
    (lpc = "run" /\ gh.reset_pending) =>
        /\ ~ ctx.should_yield
        /\ EntryPrologue(ctx, rom).pc = CHIP8_PROGRAM_START
        /\ ctx.V = [r \in Regs |-> 0]
        /\ ctx.stack = [s \in 0..15 |-> 0]
        /\ ctx.delay_timer = 0 /\ ctx.sound_timer = 0
        /\ ctx.display = {}


\* the menu screens that ask for a confirmation
ConfirmScreens == {"CONFIRM_QUIT", "CONFIRM_RESET", "CONFIRM_MENU"}

\* the menu m shows the pause screen and requests nothing
BackAtPause(m) ==
    /\ m.screen = "PAUSE"
    /\ ~ m.quit_requested /\ ~ m.reset_requested /\ ~ m.menu_requested

\* C27: cancelling returns to pause.  In every state of a run with the menu
\* open on a screen other than the pause screen, the return-to-menu
\* confirmation included, Back leads to the pause screen and sets none of
\* quit_requested, reset_requested and menu_requested, and so does selecting
\* 'No' on a confirmation.
C27_CancelReturnsToPause ==
    (lpc = "run" /\ chip8_menu_is_open(menu) /\ menu.screen # "PAUSE") =>
        /\ BackAtPause(chip8_menu_navigate(menu, "BACK", g_multi_rom_mode))
        /\ (menu.screen \in ConfirmScreens /\ menu.selected = 1) =>
               BackAtPause(chip8_menu_navigate(menu, "SELECT", g_multi_rom_mode))

\* C28: the pause item count in multi-ROM mode.  Whenever a run in multi-ROM
\* mode shows the pause screen, also after coming back from a submenu or a
\* confirmation, item_count is 9.
C28_PauseCountMulti ==
    (lpc = "run" /\ g_multi_rom_mode /\ menu.screen = "PAUSE") =>
        menu.item_count = PAUSE_MENU_COUNT_MULTI

\* the frame that begins in this state confirms 'Reset Game'
ResetFrame ==
    menu.screen = "CONFIRM_RESET" /\ menu.selected = 0 /\ menu'.screen = "NONE"

\* the part of the machine that a frozen frame must not change
Frozen(c) ==
    [ V |-> c.V, I |-> c.I, SP |-> c.SP, stack |-> c.stack, memory |-> c.memory,
      display |-> c.display, delay_timer |-> c.delay_timer,
      sound_timer |-> c.sound_timer, instruction_count |-> c.instruction_count,
      frame_count |-> c.frame_count ]

\* C29: the open menu freezes the machine.  A frame that begins with the
\* pause menu open, and after which the run goes on, does not call the entry
\* routine or execute an instruction, does not tick the timers, and leaves
\* registers, memory, display, instruction_count and frame_count as they
\* were, unless the frame confirms a reset.
C29_MenuFreezes ==
    [][ (lpc = "run" /\ chip8_menu_is_open(menu) /\ lpc' = "run" /\ ~ ResetFrame) =>
            /\ Frozen(ctx') = Frozen(ctx)
            /\ gh'.entry_calls = gh.entry_calls
            /\ gh'.frame_exec = gh.frame_exec
            /\ rpc' = rpc
            /\ was_beeping' = was_beeping ]_vars

\* ROM 1 has run a frame, its delay timer is counting, and the menu, opened
\* since, has moved on to the Graphics screen
C29_Witness ==
    /\ lpc = "run"
    /\ rom = 1
    /\ menu.screen = "GRAPHICS"
    /\ ctx.instruction_count > 0
    /\ ctx.frame_count > 0
    /\ ctx.delay_timer > 0

\* C30: memory safety of the helpers.  Every index of memory[] that a call
\* of draw-sprite, store-BCD, store-registers, load-registers or of the byte
\* and word read helpers addresses lies in 0..4095, for every 16-bit I and
\* all operands x, n in 0..15.
C30_MemoryInRange ==
    pc \in {"done", "crashed"} => InMemory(gh.touched)
=============================================================================
